---- MODULE Spec2Model ----
(***************************************************************************)
(* Model of the course_stat_tool pipeline: clean_courses and its helpers   *)
(* (src/data_cleaner.py), the two aggregators stat_courses (gui_run.py)    *)
(* and stat_and_export (src/stat_export.py), and parse_week_numbers.       *)
(*                                                                         *)
(* Text is modelled as a sequence of characters.  ASCII characters stand   *)
(* for themselves; every other character is written as a token:            *)
(*   wei 未  an 安  pai 排  zhi 知  jiang 讲  shi 师  ke 课  ben 本       *)
(*   ban 班  ji 计  suan 算  da 大  shu 数  ju 据  dian 电  xin 信         *)
(*   xi 息  shi2 实  yan 验  shi4 室  xue 学  ke1 科  yuan 院  xi4 系      *)
(*   zhuan 专  lou 楼  hao 号  gao 高  deng 等  ying 英  yu 语  san 三     *)
(*   si 四  ou 欧  yang2 阳  na 娜  ji1 机  jie 节  zhou 周  di 第         *)
(*   dan 单  shuang 双  ci 次  fen 分  lei 类  li3 理  lun 论  shi3 时    *)
(*   xiao 小  xing 星  qi 期  yi 一  er 二  wu3 五  liu 六  ri 日          *)
(*   jian 间  duan 段  xu4 序  shang 上  wu4 午  xia 下  wan 晚  zao 早    *)
(*   ye 夜  dian3 点  jiao 教  shou 授  ren 人  gong 工  di4 地  cheng 程  *)
(*   xin1 新  ye4 页  jian4 践  ming 名  cheng1 称  chang 长  xing2 型     *)
(* and the family names of common_surnames:                                *)
(*   zhao 赵  qian 钱  sun 孙  li 李  zhou 周  wu 吴  zheng 郑  wang 王    *)
(*   feng 冯  chen 陈  chu 褚  wei4 卫  jiang3 蒋  shen 沈  han 韩         *)
(*   yang 杨  zhu 朱  qin 秦  you 尤  xu 许  he 何  lv 吕  shi1 施         *)
(*   zhang 张  kong 孔  cao 曹  yan2 严  hua 华  jin 金  wei2 魏  tao 陶   *)
(*   jiang1 姜                                                             *)
(*   dot ·  bullet •  star ★  nbsp U+00A0  fsemi ；  fcomma ，             *)
(*   flp （  frp ）  fcolon ：  lbr 【  rbr 】  star2 ☆  diam ◆  diam2 ◇  *)
(*   endash –  emdash —                                                    *)
(***************************************************************************)
EXTENDS Integers, Sequences, FiniteSets, TLC

VARIABLES
    has_regex,      \* _HAS_REGEX_UNICODE: whether the regex library was importable
    config,         \* the content of config.yaml as _load_config returns it
    raw_courses,    \* the raw record sequence handed to clean_courses
    dedupe_arg,     \* the dedupe_keys argument the caller passes
    dedupe_keys,    \* clean_courses' dedupe_keys after lines 175-176
    pc,             \* position of the pipeline
    idx,            \* position of clean_courses' loop in raw_courses
    seen,           \* clean_courses' local set of seen keys
    cleaned,        \* clean_courses' local result list
    kept,           \* history: the input position of every cleaned record
    run,            \* how many times clean_courses was called on raw_courses
    prev_cleaned,   \* the previous call's return value
    stat_result,    \* what stat_courses returned for the cleaned records
    export_result,  \* what stat_and_export computed and how it ended
    calls,          \* the arguments of the calls made to a function, in order
    rets,           \* what the calls made so far returned, in order
    entry,          \* the program that runs: "cli" (run.py), "gui" (gui_run.py)
    config_file,    \* config.yaml on disk: "missing", "partial" or "full"
    files,          \* the input files of the batch, in the order they are parsed
    fpos,           \* the file being parsed
    upos,           \* the page or sheet of it parsed last
    tpos,           \* the table of that page whose rows are iterated
    rpos,           \* the row of that table handled last
    courses,        \* the local course list of the file being parsed
    last_valid_time_period, \* gui_run.py line 187: the remembered time period
    row_time_period \* the local time_period of the row handled last

pipeline_vars ==
    <<has_regex, config, raw_courses, dedupe_arg, dedupe_keys, pc, idx, seen, cleaned,
      kept, run, prev_cleaned, stat_result, export_result>>

call_vars == <<calls, rets>>

extract_vars ==
    <<entry, config_file, files, fpos, upos, tpos, rpos, courses,
      last_valid_time_period, row_time_period>>

vars == <<pipeline_vars, call_vars, extract_vars>>

\* the run starts at clean_courses, on records that are given
NoExtraction ==
    /\ entry = "none"
    /\ config_file = "none"
    /\ files = <<>>
    /\ fpos = 0
    /\ upos = 0
    /\ tpos = 0
    /\ rpos = 0
    /\ courses = <<>>
    /\ last_valid_time_period = <<>>
    /\ row_time_period = <<>>

(***************************************************************************)
(* Characters and strings                                                  *)
(***************************************************************************)
Digits == {"0", "1", "2", "3", "4", "5", "6", "7", "8", "9"}

CommonSurnames ==
    {"zhao", "qian", "sun", "li", "zhou", "wu", "zheng", "wang", "feng",
     "chen", "chu", "wei4", "jiang3", "shen", "han", "yang", "zhu", "qin",
     "you", "xu", "he", "lv", "shi1", "zhang", "kong", "cao", "yan2", "hua",
     "jin", "wei2", "tao", "jiang1"}

\* the ideographs of the range U+4E00..U+9FFF that occur in the model
Cjk ==
    {"wei", "an", "pai", "zhi", "jiang", "shi", "ke", "ben", "ban", "ji",
     "suan", "da", "shu", "ju", "dian", "xin", "xi", "shi2", "yan", "shi4",
     "xue", "ke1", "yuan", "xi4", "zhuan", "lou", "hao", "gao", "deng",
     "ying", "yu", "san", "si", "ou", "yang2", "na", "ji1", "jie", "di",
     "dan", "shuang", "ci", "fen", "lei", "li3", "lun",
     "shi3", "xiao", "xing", "qi", "yi", "er", "wu3", "liu", "ri", "jian",
     "duan", "xu4", "shang", "wu4", "xia", "wan", "zao", "ye", "dian3",
     "jiao", "shou", "ren", "gong", "di4", "cheng", "xin1", "ye4", "jian4",
     "ming", "cheng1", "chang", "xing2"}
    \cup CommonSurnames

MiddleDots == {"dot", "bullet"}

Whitespace == {" ", "\n", "\t", "nbsp"}

LatinLetters ==
    {"a", "b", "c", "d", "e", "f", "g", "h", "l", "o", "p", "r", "s", "w", "x",
     "A", "B", "H"}

IsSpace(c) == c \in Whitespace

IsDigit(c) == c \in Digits

\* [一-鿿·•]
IsNameChar(c) == c \in Cjk \cup MiddleDots

\* \w of Python's re on str: letters and digits of any script, and "_"
IsWord(c) == c \in Cjk \cup LatinLetters \cup Digits \cup {"_"}

\* \p{L} or \p{N} of the regex library
IsLetterOrNumber(c) == c \in Cjk \cup LatinLetters \cup Digits

Lower(c) ==
    CASE c = "A" -> "a"
      [] c = "B" -> "b"
      [] c = "H" -> "h"
      [] OTHER -> c

LowerStr(s) == [i \in 1..Len(s) |-> Lower(s[i])]

SetMin(S) == CHOOSE x \in S : \A y \in S : x <= y

SetMax(S) == CHOOSE x \in S : \A y \in S : y <= x

\* str.strip()
Strip(s) ==
    LET I == {i \in 1..Len(s) : ~IsSpace(s[i])}
    IN  IF I = {} THEN <<>> ELSE SubSeq(s, SetMin(I), SetMax(I))

\* sub in s
Contains(s, sub) ==
    \E i \in 0..(Len(s) - Len(sub)) : SubSeq(s, i + 1, i + Len(sub)) = sub

\* any(tok in s for tok in toks), toks a sequence of strings
ContainsAny(s, toks) == \E k \in 1..Len(toks) : Contains(s, toks[k])

HasDigit(s) == \E i \in 1..Len(s) : IsDigit(s[i])

\* str.replace(pat, rep): left to right, non-overlapping
RECURSIVE Replace(_, _, _)
Replace(s, pat, rep) ==
    IF Len(pat) = 0 \/ Len(s) < Len(pat) THEN s
    ELSE IF SubSeq(s, 1, Len(pat)) = pat
         THEN rep \o Replace(SubSeq(s, Len(pat) + 1, Len(s)), pat, rep)
         ELSE <<s[1]>> \o Replace(Tail(s), pat, rep)

\* the length of the longest prefix of s[i..] whose characters are in class C
RunLen(s, i, C) ==
    LET Stops == {j \in i..Len(s) : s[j] \notin C}
    IN  IF Stops = {} THEN Len(s) - i + 1 ELSE SetMin(Stops) - i

\* re.sub(pattern, rep, s), the pattern given by ends: ends[i] is the position
\* after the match that starts at i, or 0 when the pattern does not match at i
RECURSIVE SubFrom(_, _, _, _)
SubFrom(s, ends, rep, i) ==
    IF i > Len(s) THEN <<>>
    ELSE IF ends[i] > i
         THEN rep \o SubFrom(s, ends, rep, ends[i])
         ELSE <<s[i]>> \o SubFrom(s, ends, rep, i + 1)

\* the value of a decimal digit, and int() of a digit run
DigitVal(c) ==
    CASE c = "0" -> 0 [] c = "1" -> 1 [] c = "2" -> 2 [] c = "3" -> 3
      [] c = "4" -> 4 [] c = "5" -> 5 [] c = "6" -> 6 [] c = "7" -> 7
      [] c = "8" -> 8 [] c = "9" -> 9

RECURSIVE ToInt(_)
ToInt(ds) ==
    IF Len(ds) = 0 THEN 0
    ELSE 10 * ToInt(SubSeq(ds, 1, Len(ds) - 1)) + DigitVal(ds[Len(ds)])

DigitChar(d) ==
    CASE d = 0 -> "0" [] d = 1 -> "1" [] d = 2 -> "2" [] d = 3 -> "3"
      [] d = 4 -> "4" [] d = 5 -> "5" [] d = 6 -> "6" [] d = 7 -> "7"
      [] d = 8 -> "8" [] d = 9 -> "9"

\* str(n) of a non-negative int
RECURSIVE NatStr(_)
NatStr(n) ==
    IF n < 10 THEN <<DigitChar(n)>>
    ELSE NatStr(n \div 10) \o <<DigitChar(n % 10)>>

\* re.findall(r'\d+', s): the maximal digit runs, left to right
RECURSIVE DigitRuns(_, _)
DigitRuns(s, i) ==
    IF i > Len(s) THEN <<>>
    ELSE IF IsDigit(s[i])
         THEN LET n == RunLen(s, i, Digits)
              IN  <<SubSeq(s, i, i + n - 1)>> \o DigitRuns(s, i + n)
         ELSE DigitRuns(s, i + 1)

(***************************************************************************)
(* Values: None, and the truth value Python gives a string or None         *)
(***************************************************************************)
None == <<"None">>

Truthy(v) == v # None /\ v # <<>>

\* x or "" for a string or None
OrEmpty(v) == IF Truthy(v) THEN v ELSE <<>>

\* The raw value under the key 课时 or 课时_标准化: the key is absent, or it
\* holds None, a string, a non-negative int, or a float ip.fp with one
\* fractional digit.
HoursAbsent == [kind |-> "absent", s |-> <<>>, ip |-> 0, fp |-> 0]

HoursNone == [kind |-> "none", s |-> <<>>, ip |-> 0, fp |-> 0]

HoursStr(s) == [kind |-> "str", s |-> s, ip |-> 0, fp |-> 0]

HoursInt(n) == [kind |-> "int", s |-> <<>>, ip |-> n, fp |-> 0]

HoursFloat(ip, fp) == [kind |-> "float", s |-> <<>>, ip |-> ip, fp |-> fp]

\* str(duration_str)
HoursText(h) ==
    CASE h.kind = "str" -> h.s
      [] h.kind = "int" -> NatStr(h.ip)
      [] h.kind = "float" -> NatStr(h.ip) \o <<".">> \o NatStr(h.fp)
      [] OTHER -> <<"N", "o", "n", "e">>

(***************************************************************************)
(* src/data_cleaner.py                                                     *)
(***************************************************************************)
\* characters re.sub keeps in a course name besides letters and digits
NameSeparators ==
    {"dot", "bullet", "-", "(", ")", "flp", "frp", "lbr", "rbr", ":",
     "fcolon", ",", "fcomma", ";", "fsemi", "/", "\\"}

NameCharAllowed(c) ==
    \/ c \in NameSeparators
    \/ IsSpace(c)
    \/ IF has_regex THEN IsLetterOrNumber(c) ELSE IsWord(c)

_normalize_course_name(raw_name) ==
    IF ~Truthy(raw_name) THEN <<>>
    ELSE Strip(SelectSeq(raw_name, NameCharAllowed))

_parse_hours(duration_str) ==
    IF duration_str.kind = "none"
       \/ (duration_str.kind = "str" /\ duration_str.s = <<>>)
    THEN 0
    ELSE LET s == LowerStr(HoursText(duration_str))
             m == DigitRuns(s, 1)
             nums == [k \in 1..Len(m) |-> ToInt(m[k])]
         IN  IF Len(m) = 0 THEN 0
             ELSE IF Len(nums) = 1 THEN nums[1]
             ELSE SetMax({nums[k] : k \in 1..Len(nums)})

noise_patterns ==
    << <<"wei", "an", "pai">>, <<"ke">>, <<"ben">>, <<"ban">>,
       <<"ji", "suan">>, <<"da", "shu", "ju">>, <<"dian", "xin">>,
       <<"xin", "xi">>, <<"shi2", "yan", "shi4">> >>

candidate_noise_subs ==
    << <<"xue">>, <<"ke1">>, <<"ben">>, <<"ban">>, <<"yuan">>, <<"xi4">>,
       <<"zhuan">>, <<"shi2", "yan">>, <<"lou">>, <<"shi4">>, <<"hao">> >>

MaxTeacherRawLen == 30

MaxFragmentLen == 20

\* re.match(r'^[一-鿿·•]{lo,hi}$', s); $ also matches before a final newline
NameShape(s, lo, hi) ==
    LET Body(b) == Len(b) \in lo..hi /\ \A i \in 1..Len(b) : IsNameChar(b[i])
    IN  \/ Body(s)
        \/ Len(s) > 0 /\ s[Len(s)] = "\n" /\ Body(SubSeq(s, 1, Len(s) - 1))

\* [一-龥\w\s-]
FragmentChars == Cjk \cup LatinLetters \cup Digits \cup {"_", "-"} \cup Whitespace

At(s, i) == IF i \in 1..Len(s) THEN s[i] ELSE "end"

\* /?\s*23[一-龥\w\s-]{0,20}本
MatchClassTag(s, i) ==
    LET j == IF At(s, i) = "/" THEN i + 1 ELSE i
        k == j + RunLen(s, j, Whitespace)
        m == k + 2
        r == RunLen(s, m, FragmentChars)
        Ns == {n \in 0..MaxFragmentLen : n <= r /\ At(s, m + n) = "ben"}
    IN  IF At(s, k) = "2" /\ At(s, k + 1) = "3" /\ Ns # {}
        THEN m + SetMax(Ns) + 1 ELSE 0

\* -\d{3,}
MatchDashNumber(s, i) ==
    LET r == RunLen(s, i + 1, Digits)
    IN  IF At(s, i) = "-" /\ r >= 3 THEN i + 1 + r ELSE 0

\* \(\d+-\d+节\)
MatchSectionNote(s, i) ==
    LET a == RunLen(s, i + 1, Digits)
        p == i + 1 + a
        b == RunLen(s, p + 1, Digits)
        q == p + 1 + b
    IN  IF /\ At(s, i) = "(" /\ a >= 1 /\ At(s, p) = "-" /\ b >= 1
           /\ At(s, q) = "jie" /\ At(s, q + 1) = ")"
        THEN q + 2 ELSE 0

\* \(.*?\)
MatchParenthetical(s, i) ==
    LET Closers == {j \in (i + 1)..Len(s) :
                        /\ s[j] = ")"
                        /\ \A k \in (i + 1)..(j - 1) : s[k] # "\n"}
    IN  IF At(s, i) = "(" /\ Closers # {} THEN SetMin(Closers) + 1 ELSE 0

\* /[一-龥\w\s-]{1,20}$
MatchTrailingFragment(s, i) ==
    LET r == RunLen(s, i + 1, FragmentChars)
        Ns == {n \in 1..MaxFragmentLen :
                  /\ n <= r
                  /\ \/ i + n = Len(s)
                     \/ i + n = Len(s) - 1 /\ s[Len(s)] = "\n"}
    IN  IF At(s, i) = "/" /\ Ns # {} THEN i + SetMax(Ns) + 1 ELSE 0

\* [\s ]+
MatchSpaces(s, i) ==
    IF IsSpace(At(s, i)) THEN i + RunLen(s, i, Whitespace) ELSE 0

\* re.sub(pattern, rep, s) for each pattern of _preclean_source_text
SubClassTag(s) == SubFrom(s, [i \in 1..Len(s) |-> MatchClassTag(s, i)], <<>>, 1)

SubDashNumber(s) == SubFrom(s, [i \in 1..Len(s) |-> MatchDashNumber(s, i)], <<>>, 1)

SubSectionNote(s) == SubFrom(s, [i \in 1..Len(s) |-> MatchSectionNote(s, i)], <<>>, 1)

SubParenthetical(s) ==
    SubFrom(s, [i \in 1..Len(s) |-> MatchParenthetical(s, i)], <<>>, 1)

SubTrailingFragment(s) ==
    SubFrom(s, [i \in 1..Len(s) |-> MatchTrailingFragment(s, i)], <<>>, 1)

SubSpaces(s) == SubFrom(s, [i \in 1..Len(s) |-> MatchSpaces(s, i)], <<" ">>, 1)

\* lines 83-98, each line applied to the result of the line before
_preclean_source_text(s) ==
    Strip(Replace(
        Strip(SubSpaces(SubTrailingFragment(SubParenthetical(SubSectionNote(
            SubDashNumber(SubClassTag(Replace(s, <<"wei", "an", "pai">>, <<>>)))))))),
        <<"/", "/">>, <<"/">>))

\* re.split(r'[seps]', s)
RECURSIVE Split(_, _)
Split(s, seps) ==
    LET I == {i \in 1..Len(s) : s[i] \in seps}
    IN  IF I = {} THEN <<s>>
        ELSE <<SubSeq(s, 1, SetMin(I) - 1)>>
             \o Split(SubSeq(s, SetMin(I) + 1, Len(s)), seps)

\* [p.strip() for p in pieces if p.strip()]
StripParts(pieces) ==
    LET stripped == [k \in 1..Len(pieces) |-> Strip(pieces[k])]
    IN  SelectSeq(stripped, LAMBDA p : p # <<>>)

\* re.findall(r'[一-鿿·•]{2,6}', p)
RECURSIVE FindNames(_, _)
FindNames(p, i) ==
    IF i > Len(p) THEN <<>>
    ELSE LET r == RunLen(p, i, Cjk \cup MiddleDots)
             n == IF r > 6 THEN 6 ELSE r
         IN  IF r >= 2
             THEN <<SubSeq(p, i, i + n - 1)>> \o FindNames(p, i + n)
             ELSE FindNames(p, i + 1)

\* the loop of lines 104-120 over parts[k..]
RECURSIVE Candidates(_, _, _, _)
Candidates(parts, k, course_name, teacher_blacklist) ==
    IF k > Len(parts) THEN <<>>
    ELSE LET Keep(f) ==
                 /\ ~(course_name # <<>> /\ Contains(course_name, f))
                 /\ ~ContainsAny(f, teacher_blacklist)
                 /\ ~ContainsAny(f, candidate_noise_subs)
                 /\ ~HasDigit(f)
                 /\ Len(f) \in 2..6
         IN  SelectSeq(FindNames(parts[k], 1), Keep)
             \o Candidates(parts, k + 1, course_name, teacher_blacklist)

_is_valid_chinese_name(name, cfg) ==
    /\ name # <<>>
    /\ NameShape(name, 2, 4)
    /\ LET white == SelectSeq(cfg.name_whitelist, Truthy)
       IN  \/ \E k \in 1..Len(white) : white[k] = name
           \/ name[1] \in CommonSurnames

\* the loop of lines 151-156 at position k of reversed(filtered)
RECURSIVE ChooseLoop(_, _, _, _)
ChooseLoop(filtered, k, chosen, cfg) ==
    IF k = 0 THEN chosen
    ELSE LET c == filtered[k]
         IN  IF _is_valid_chinese_name(c, cfg) THEN c
             ELSE ChooseLoop(filtered, k - 1,
                             IF chosen = <<>> /\ NameShape(c, 2, 4)
                             THEN c ELSE chosen,
                             cfg)

\* lines 138-147
DeptFiltered(candidates, dept_blacklist) ==
    IF SelectSeq(candidates, LAMBDA c : ~ContainsAny(LowerStr(c), dept_blacklist)) = <<>>
    THEN candidates
    ELSE SelectSeq(candidates, LAMBDA c : ~ContainsAny(LowerStr(c), dept_blacklist))

\* lines 157-158
OrLast(looped, filtered) ==
    IF looped = <<>> THEN filtered[Len(filtered)] ELSE looped

\* lines 149-158
Chosen(filtered, cfg) == OrLast(ChooseLoop(filtered, Len(filtered), <<>>, cfg), filtered)

\* lines 160-163
Accept(chosen, cfg) == IF _is_valid_chinese_name(chosen, cfg) THEN chosen ELSE <<>>

\* lines 121-163
FromCandidates(candidates, cfg) ==
    IF candidates = <<>> THEN <<>>
    ELSE Accept(Chosen(DeptFiltered(candidates, [k \in 1..Len(cfg.department_blacklist) |->
                                        LowerStr(cfg.department_blacklist[k])]), cfg), cfg)

\* lines 100-163: the instructor re-derived from the source text, or ''
RederiveTeacher(source_text, course_name, cfg) ==
    FromCandidates(
        Candidates(StripParts(Split(_preclean_source_text(source_text),
                                    {"\n", "/", ";", "fsemi", "|"})),
                   1, course_name,
                   [k \in 1..Len(cfg.teacher_blacklist) |-> LowerStr(cfg.teacher_blacklist[k])]),
        cfg)

Unassigned == <<"wei", "an", "pai">>

LowerAll(strs) == [k \in 1..Len(strs) |-> LowerStr(strs[k])]

\* lines 62-64
TeacherText(teacher_raw) == IF Truthy(teacher_raw) THEN Strip(teacher_raw) ELSE <<>>

\* lines 69-71
RejectNoise(t, teacher_blacklist) ==
    IF \/ ContainsAny(t, teacher_blacklist)
       \/ ContainsAny(t, noise_patterns)
       \/ HasDigit(t)
       \/ Len(t) > MaxTeacherRawLen
    THEN <<>> ELSE t

NoSpace(x) == SelectSeq(x, LAMBDA c : c # " ")

\* lines 74-75
RejectCourseOverlap(t, course_name) ==
    IF /\ t # <<>>
       /\ course_name # <<>>
       /\ \/ Contains(NoSpace(t), NoSpace(course_name))
          \/ Contains(NoSpace(course_name), NoSpace(t))
    THEN <<>> ELSE t

\* lines 78-79
RejectShape(t) == IF t # <<>> /\ ~NameShape(t, 2, 6) THEN <<>> ELSE t

\* lines 82-163
Rederive(t, source_text, course_name, cfg) ==
    IF t = <<>> /\ Truthy(source_text)
    THEN RederiveTeacher(source_text, course_name, cfg)
    ELSE t

\* line 164
OrUnassigned(t) == IF t # <<>> THEN t ELSE Unassigned

_clean_teacher(teacher_raw, source_text, course_name, cfg) ==
    OrUnassigned(
        Rederive(
            RejectShape(
                RejectCourseOverlap(
                    RejectNoise(TeacherText(teacher_raw),
                                LowerAll(cfg.teacher_blacklist)),
                    course_name)),
            source_text, course_name, cfg))

(***************************************************************************)
(* Records.  A raw record is a dict; a key the dict lacks holds Absent.   *)
(* Field names: file 文件来源, sheet_page sheet/页码, sheet_name sheet名称, *)
(* locator 来源标识, name 课程名称, teacher 讲师, hours 课时,               *)
(* hours_std 课时_标准化, category 分类, week 周次, section 节次,           *)
(* location 地点, time_period 时间段, source_name_text 来源原文_课程名,     *)
(* source_text 来源原文.                                                   *)
(***************************************************************************)
Absent == <<"Absent">>

\* course.get(key, default)
Get(value, default) == IF value = Absent THEN default ELSE value

DefaultDedupeKeys == << "name", "teacher" >>

Unknown == <<"wei", "zhi">>

\* lines 175-176
ResolveDedupeKeys(arg, cfg) ==
    IF arg # None THEN arg
    ELSE IF cfg.dedupe_keys # <<>> THEN cfg.dedupe_keys
    ELSE DefaultDedupeKeys

\* line 183
CourseName(course) == _normalize_course_name(OrEmpty(Get(course.name, None)))

MinNameLen == 2

\* a filter that rejects the empty name only
NameInvalidEmptyOnly(name) == name = <<>>

\* line 185
NameInvalid(name) == name = <<>> \/ Len(name) < MinNameLen

\* lines 188-192
DedupeKey(course) ==
    << CourseName(course),
       OrEmpty(Get(course.week, <<>>)),
       OrEmpty(Get(course.section, <<>>)) >>

\* line 208
RawHour(course) ==
    IF course.hours.kind # "absent" THEN course.hours
    ELSE IF course.hours_std.kind # "absent" THEN course.hours_std
    ELSE HoursInt(0)

\* lines 198-229: the cleaned record built for a course that is kept
CleanedCourse(course, cfg) ==
    LET name == CourseName(course)
        source_text ==
            IF Truthy(Get(course.source_name_text, <<>>))
            THEN Get(course.source_name_text, <<>>)
            ELSE Get(course.source_text, <<>>)
        category == OrEmpty(Get(course.category, <<>>))
    IN  [file |-> Get(course.file, <<>>),
         sheet_page |-> Get(course.sheet_page, Get(course.sheet_name, <<>>)),
         name |-> name,
         teacher |-> _clean_teacher(Get(course.teacher, <<>>), source_text, name, cfg),
         hours |-> _parse_hours(RawHour(course)),
         category |-> IF category = <<>> THEN Unknown ELSE category,
         week |-> OrEmpty(Get(course.week, <<>>)),
         location |-> Get(course.location, <<>>),
         section |-> OrEmpty(Get(course.section, <<>>)),
         time_period |-> Get(course.time_period, <<>>),
         source_name_text |-> Get(course.source_name_text, <<>>)]

\* the seen set of the previous call, carried over instead of a fresh one
StaleSeen == seen

\* lines 178-179
InitialSeen == {}

\* a seen set that never records a key
SeenAddNothing(s, key) == s

\* line 195
SeenAdd(s, key) == s \cup {key}

\* line 230
CleanedAppend(list, rec) == Append(list, rec)

(***************************************************************************)
(* src/stat_export.py: parse_week_numbers                                  *)
(***************************************************************************)
\* separators without the ASCII comma
WeekSeparatorsNoComma == {"fcomma", "fsemi", ";"} \cup Whitespace

WeekSeparators == {"fcomma", ",", "fsemi", ";"} \cup Whitespace

\* re.split(r'[，,；;\s]+', s)
RECURSIVE SplitRuns(_, _)
SplitRuns(s, seps) ==
    LET I == {i \in 1..Len(s) : s[i] \in seps}
    IN  IF I = {} THEN <<s>>
        ELSE LET i == SetMin(I)
                 r == RunLen(s, i, seps)
             IN  <<SubSeq(s, 1, i - 1)>> \o SplitRuns(SubSeq(s, i + r, Len(s)), seps)

IsDigits(p) == Len(p) >= 1 /\ \A i \in 1..Len(p) : IsDigit(p[i])

\* lines 81-101: the tokens (none or one) of one segment
WeekToken(seg) ==
    LET has_paren == "(" \in {seg[i] : i \in 1..Len(seg)}
                     /\ ")" \in {seg[i] : i \in 1..Len(seg)}
        open == SetMin({i \in 1..Len(seg) : seg[i] = "("} \cup {Len(seg) + 1})
        p == IF has_paren THEN SubSeq(seg, 1, open - 1) ELSE seg
        paren == IF has_paren THEN SubSeq(seg, open + 1, Len(seg)) ELSE <<>>
        parity_suffix ==
            IF "dan" \in {paren[i] : i \in 1..Len(paren)} THEN <<"(", "dan", ")">>
            ELSE IF "shuang" \in {paren[i] : i \in 1..Len(paren)}
                 THEN <<"(", "shuang", ")">>
                 ELSE <<>>
        \* $ also matches before a final newline, which a segment never holds
        Dashes == {i \in 1..Len(p) : p[i] = "-"}
        d == SetMin(Dashes \cup {Len(p) + 1})
        is_range == /\ Dashes # {}
                    /\ IsDigits(SubSeq(p, 1, d - 1))
                    /\ IsDigits(SubSeq(p, d + 1, Len(p)))
        a == ToInt(SubSeq(p, 1, d - 1))
        b == ToInt(SubSeq(p, d + 1, Len(p)))
        lo == IF a > b THEN b ELSE a
        hi == IF a > b THEN a ELSE b
    IN  IF is_range THEN << NatStr(lo) \o <<"-">> \o NatStr(hi) \o parity_suffix >>
        ELSE IF IsDigits(p) THEN <<p>>
        ELSE <<>>

RECURSIVE WeekTokens(_, _)
WeekTokens(parts, k) ==
    IF k > Len(parts) THEN <<>>
    ELSE (IF parts[k] = <<>> THEN <<>> ELSE WeekToken(parts[k]))
         \o WeekTokens(parts, k + 1)

parse_week_numbers(week_str) ==
    IF ~Truthy(week_str) THEN <<>>
    ELSE LET s == SelectSeq(week_str, LAMBDA c : c # "zhou" /\ c # "di")
         IN  WeekTokens(SplitRuns(s, WeekSeparators), 1)

(***************************************************************************)
(* The aggregators: stat_courses (gui_run.py) and stat_and_export          *)
(* (src/stat_export.py).  A DataFrame is the sequence of its rows; its     *)
(* columns are the keys of the records it was built from.                  *)
(***************************************************************************)
UnknownInstructor == <<"wei", "zhi", "jiang", "shi">>

UnknownWeek == <<"wei", "zhi", "zhou", "ci">>

Columns(df) == DOMAIN df[1]

RECURSIVE SumHours(_, _)
SumHours(df, k) ==
    IF k > Len(df) THEN 0 ELSE df[k].hours + SumHours(df, k + 1)

\* Series.value_counts().to_dict() of the values col[1..]
ValueCounts(col) ==
    [v \in {col[k] : k \in 1..Len(col)} |->
        Cardinality({k \in 1..Len(col) : col[k] = v})]

\* Series.replace({None: "", "": "", "未知讲师": ""}) then the distinct
\* values that are not ""
TeacherCount(df) ==
    LET Replaced(t) == IF t = None \/ t = <<>> \/ t = UnknownInstructor
                       THEN <<>> ELSE t
    IN  Cardinality({Replaced(df[k].teacher) : k \in 1..Len(df)} \ {<<>>})

\* the loop of gui_run.py lines 301-308 and stat_export.py lines 51-58:
\* the bucket every row increments, in order
RECURSIVE WeekBuckets(_, _)
WeekBuckets(df, k) ==
    IF k > Len(df) THEN <<>>
    ELSE LET weeks == parse_week_numbers(df[k].week)
         IN  (IF weeks # <<>> THEN weeks ELSE <<UnknownWeek>>)
             \o WeekBuckets(df, k + 1)

\* gui_run.py line 289
ValidRows(df) == SelectSeq(df, LAMBDA r : r.hours > 0)

NotRun ==
    [status |-> "not_run", total_courses |-> 0, total_hours |-> 0,
     teacher_count |-> 0, category_count |-> 0, week_count |-> 0,
     teacher_dist |-> <<>>, category_dist |-> <<>>, week_dist |-> <<>>]

stat_courses(cleaned_courses) ==
    IF cleaned_courses = <<>> THEN [NotRun EXCEPT !.status = "none"]
    ELSE LET df == cleaned_courses
             df_valid == ValidRows(df)
             week_counts == ValueCounts(WeekBuckets(df_valid, 1))
         IN  [status |-> "ok",
              total_courses |-> Len(df_valid),
              total_hours |-> SumHours(df_valid, 1),
              teacher_count |-> TeacherCount(df_valid),
              category_count |->
                  Cardinality({df_valid[k].category : k \in 1..Len(df_valid)}),
              week_count |-> Cardinality(DOMAIN week_counts),
              teacher_dist |->
                  ValueCounts([k \in 1..Len(df_valid) |-> df_valid[k].teacher]),
              category_dist |->
                  ValueCounts([k \in 1..Len(df_valid) |-> df_valid[k].category]),
              week_dist |-> week_counts]

key_columns == <<"name", "teacher", "hours", "hours_std", "category", "file">>

\* stat_export.py lines 10-64.  status: "empty" (line 14), "KeyError" (line
\* 40 selects a column the frame lacks) or "exported"; the totals are the
\* values of df_total (lines 33-36).
stat_and_export(cleaned_courses) ==
    IF cleaned_courses = <<>> THEN [NotRun EXCEPT !.status = "empty"]
    ELSE LET df == cleaned_courses
             cols == Columns(df)
             totals ==
                 [NotRun EXCEPT
                    !.total_courses = Len(df),
                    !.total_hours = IF "hours_std" \in cols
                                    THEN SumHours([k \in 1..Len(df) |->
                                             [hours |-> df[k].hours_std]], 1)
                                    ELSE 0,
                    !.teacher_count = IF "teacher" \in cols
                                      THEN TeacherCount(df) ELSE 0,
                    !.category_count =
                        IF "category" \in cols
                        THEN Cardinality({df[k].category : k \in 1..Len(df)})
                        ELSE 0]
             raw_cols == {key_columns[k] : k \in 1..Len(key_columns)}
             \* df_raw = df[key_columns] has no week column
             week_counts == IF "week" \in raw_cols
                            THEN ValueCounts(WeekBuckets(df, 1)) ELSE <<>>
         IN  IF ~(raw_cols \subseteq cols)
             THEN [totals EXCEPT !.status = "KeyError"]
             ELSE [totals EXCEPT !.status = "exported",
                                 !.week_dist = week_counts,
                                 !.week_count = Cardinality(DOMAIN week_counts)]

(***************************************************************************)
(* The pipeline                                                            *)
(***************************************************************************)
MaxRuns == 2

\* clean_courses is entered: lines 174-179
CleanCall ==
    /\ pc \in {"start", "returned"}
    /\ run < MaxRuns
    /\ dedupe_keys' = ResolveDedupeKeys(dedupe_arg, config)
    /\ cleaned' = <<>>
    /\ seen' = InitialSeen
    /\ kept' = <<>>
    /\ idx' = 1
    /\ run' = run + 1
    /\ prev_cleaned' = IF pc = "returned" THEN cleaned ELSE prev_cleaned
    /\ stat_result' = NotRun
    /\ export_result' = NotRun
    /\ pc' = "loop"
    /\ UNCHANGED <<has_regex, config, raw_courses, dedupe_arg>>
    /\ UNCHANGED <<call_vars, extract_vars>>

\* one iteration of the loop of lines 181-230
CleanStep ==
    /\ pc = "loop"
    /\ idx <= Len(raw_courses)
    /\ LET course == raw_courses[idx]
           name == CourseName(course)
           key == DedupeKey(course)
       IN  IF NameInvalid(name) \/ key \in seen
           THEN UNCHANGED <<seen, cleaned, kept>>
           ELSE /\ seen' = SeenAdd(seen, key)
                /\ cleaned' = CleanedAppend(cleaned, CleanedCourse(course, config))
                /\ kept' = Append(kept, idx)
    /\ idx' = idx + 1
    /\ UNCHANGED <<has_regex, config, raw_courses, dedupe_arg, dedupe_keys, pc,
                   run, prev_cleaned, stat_result, export_result>>
    /\ UNCHANGED <<call_vars, extract_vars>>

\* line 232
CleanReturn ==
    /\ pc = "loop"
    /\ idx > Len(raw_courses)
    /\ pc' = "returned"
    /\ UNCHANGED <<has_regex, config, raw_courses, dedupe_arg, dedupe_keys, idx,
                   seen, cleaned, kept, run, prev_cleaned, stat_result,
                   export_result>>
    /\ UNCHANGED <<call_vars, extract_vars>>

\* gui_run.py: stat_courses on the cleaned records
StatCourses ==
    /\ pc = "returned"
    /\ entry # "cli"
    /\ stat_result.status = "not_run"
    /\ stat_result' = stat_courses(cleaned)
    /\ UNCHANGED <<has_regex, config, raw_courses, dedupe_arg, dedupe_keys, pc,
                   idx, seen, cleaned, kept, run, prev_cleaned, export_result>>
    /\ UNCHANGED <<call_vars, extract_vars>>

\* run.py line 54: stat_and_export on the cleaned records
StatAndExport ==
    /\ pc = "returned"
    /\ entry # "gui"
    /\ export_result.status = "not_run"
    /\ export_result' = stat_and_export(cleaned)
    /\ UNCHANGED <<has_regex, config, raw_courses, dedupe_arg, dedupe_keys, pc,
                   idx, seen, cleaned, kept, run, prev_cleaned, stat_result>>
    /\ UNCHANGED <<call_vars, extract_vars>>

Next == CleanCall \/ CleanStep \/ CleanReturn \/ StatCourses \/ StatAndExport

(***************************************************************************)
(* Inputs                                                                  *)
(***************************************************************************)
MaxCourses == 3

\* the sequences over S of length at most n
SeqsUpTo(S, n) == UNION {[1..k -> S] : k \in 0..n}

NoConfig ==
    [dedupe_keys |-> <<>>, teacher_blacklist |-> <<>>,
     department_blacklist |-> <<>>, name_whitelist |-> <<>>]

\* a raw record as parse_pdf builds it (file_parser.py lines 231-241, 299-303)
Raw(name, teacher, week, section, hours, category, source) ==
    [file |-> <<"f">>, sheet_page |-> <<"p">>, sheet_name |-> Absent,
     locator |-> <<"f", "|", "p">>, name |-> name, teacher |-> teacher,
     hours |-> hours, hours_std |-> HoursAbsent, category |-> category,
     week |-> week, section |-> section, location |-> <<>>,
     time_period |-> <<>>, source_name_text |-> source, source_text |-> Absent]

\* the pipeline before clean_courses is called, given its inputs
StartPipeline(settings, inputs) ==
    /\ \E st \in settings :
           /\ has_regex = st.has_regex
           /\ config = st.config
           /\ dedupe_arg = st.dedupe_arg
    /\ raw_courses \in inputs
    /\ dedupe_keys = <<>>
    /\ pc = "start"
    /\ idx = 0
    /\ seen = {}
    /\ cleaned = <<>>
    /\ kept = <<>>
    /\ run = 0
    /\ prev_cleaned = <<>>
    /\ stat_result = NotRun
    /\ export_result = NotRun

\* what a specification of the pipeline starts from
Start(settings, inputs) ==
    /\ StartPipeline(settings, inputs)
    /\ calls = <<>>
    /\ rets = <<>>
    /\ NoExtraction

GaoShu == <<"gao", "shu">>

ZhangSan == <<"zhang", "san">>

LiSi == <<"li", "si">>

Weeks1to16 == <<"1", "-", "1", "6", "zhou">>

Weeks1to8 == <<"1", "-", "8", "zhou">>

Section12 == <<"1", "-", "2">>

\* Records that differ in the course name (valid; valid after normalisation,
\* with "_" kept only without the regex library; too short after
\* normalisation; None), in the instructor, and in the week.
DedupePool ==
    {Raw(GaoShu, ZhangSan, Weeks1to16, Section12, HoursInt(1), <<>>, <<>>),
     Raw(GaoShu, ZhangSan, Weeks1to8, Section12, HoursInt(1), <<>>, <<>>),
     Raw(<<"gao", "_", "shu", "star">>, LiSi, Weeks1to16, Section12, HoursInt(1), <<>>, <<>>),
     Raw(<<"star", "gao", " ">>, ZhangSan, Weeks1to16, Section12, HoursInt(1), <<>>, <<>>),
     Raw(None, ZhangSan, Weeks1to16, Section12, HoursInt(1), <<>>, <<>>)}

\* the library in use, config.yaml, and the dedupe_keys argument: no
\* configuration, keys from config.yaml, keys from the argument
Setting(r, cfg, arg) == [has_regex |-> r, config |-> cfg, dedupe_arg |-> arg]

DedupeSettings ==
    {Setting(r, NoConfig, None) : r \in BOOLEAN}
    \cup {Setting(r, [NoConfig EXCEPT !.dedupe_keys = <<"name", "week", "section">>], None) :
              r \in BOOLEAN}
    \cup {Setting(r, NoConfig, <<"name">>) : r \in BOOLEAN}

Init == Start(DedupeSettings, SeqsUpTo(DedupePool, MaxCourses))

Spec == Init /\ [][Next]_vars

(***************************************************************************)
(* SpecHours: clean_courses on one record whose hours value ranges over    *)
(* the absent key, None, ints, floats and short strings.                   *)
(***************************************************************************)
MaxHoursLen == 3

MaxHoursInt == 12

HoursInputs ==
    {HoursAbsent, HoursNone}
    \cup {HoursInt(n) : n \in 0..MaxHoursInt}
    \cup {HoursFloat(n, f) : n \in 0..MaxHoursInt, f \in {0, 5}}
    \cup {HoursStr(t) : t \in SeqsUpTo({"1", "2", "6", "0", "h", "("}, MaxHoursLen)}

InitHours ==
    Start({Setting(FALSE, NoConfig, None)},
          {<<Raw(GaoShu, ZhangSan, Weeks1to16, Section12, h, <<>>, <<>>)>> :
              h \in HoursInputs})

SpecHours == InitHours /\ [][Next]_vars

(***************************************************************************)
(* SpecTeacher: clean_courses on one record whose raw instructor and       *)
(* source text vary, under four configurations.                            *)
(***************************************************************************)
MaxTeacherLen == 2

OuYangNaNa == <<"ou", "yang2", "na", "na">>

TeacherInputs ==
    SeqsUpTo({"zhang", "san", "ben", "1", " ", "dot"}, MaxTeacherLen)
    \cup {None, Absent, UnknownInstructor, Unknown, Unassigned, OuYangNaNa,
          <<"zhang", "san", "li", "si", "wang", "chen", "zhao">>}

\* 高数/张三/23计算机本, 张三/高数, 高数;欧阳娜娜 李四(1-2节), 高数;欧阳娜娜,
\* 王·陈 未安排
SourceInputs ==
    {<<>>,
     <<"gao", "shu", "/", "zhang", "san", "/", "2", "3", "ji", "suan", "ji1", "ben">>,
     <<"zhang", "san", "/", "gao", "shu">>,
     <<"gao", "shu", ";">> \o OuYangNaNa \o <<" ", "li", "si", "(", "1", "-", "2", "jie", ")">>,
     <<"gao", "shu", ";">> \o OuYangNaNa,
     <<"wang", "dot", "chen", " ", "wei", "an", "pai">>}

TeacherConfigs ==
    {NoConfig,
     [NoConfig EXCEPT !.teacher_blacklist = <<UnknownInstructor>>],
     [NoConfig EXCEPT !.name_whitelist = <<OuYangNaNa>>,
                      !.department_blacklist = <<LiSi>>],
     [NoConfig EXCEPT !.name_whitelist = <<OuYangNaNa>>]}

InitTeacher ==
    Start({Setting(FALSE, cfg, None) : cfg \in TeacherConfigs},
          {<<Raw(GaoShu, t, Weeks1to16, Section12, HoursInt(1), <<>>, src)>> :
              t \in TeacherInputs, src \in SourceInputs})

SpecTeacher == InitTeacher /\ [][Next]_vars

(***************************************************************************)
(* SpecStat: the aggregators on cleaned records that differ in hours       *)
(* (0 or more), instructor (named or unassigned), week text and category.  *)
(***************************************************************************)
Theory == <<"li3", "lun">>

StatPool ==
    {Raw(GaoShu, t, w, Section12, HoursInt(h), IF h = 0 THEN Theory ELSE <<>>, <<>>) :
        t \in {ZhangSan, LiSi, <<>>},
        w \in {Weeks1to16, <<"3", "zhou", ",", "5", "zhou">>, <<>>},
        h \in {0, 2}}

InitStat ==
    Start({Setting(FALSE, NoConfig, None)}, SeqsUpTo(StatPool, MaxCourses))

SpecStat == InitStat /\ [][Next]_vars

(***************************************************************************)
(* Deduplication, ordering and the name filter (Spec)                      *)
(***************************************************************************)
Returned == pc = "returned"

Processed == 1..(idx - 1)

KeptSet == {kept[k] : k \in 1..Len(kept)}

ValidNamed(j) == ~NameInvalid(CourseName(raw_courses[j]))

\* the value a configured key names, on the cleaned form of a raw record
KeyValue(j, key) ==
    LET rec == CleanedCourse(raw_courses[j], config)
    IN  IF key \in DOMAIN rec THEN rec[key] ELSE <<>>

ConfiguredKey(j) == [k \in 1..Len(dedupe_keys) |-> KeyValue(j, dedupe_keys[k])]

\* C1: with the default configuration, no two records of the returned list
\* have the same normalized course name and the same instructor.
C1_DefaultKeysUnique ==
    (Returned /\ dedupe_keys = DefaultDedupeKeys) =>
        \A a, b \in 1..Len(cleaned) :
            (cleaned[a].name = cleaned[b].name
             /\ cleaned[a].teacher = cleaned[b].teacher) => a = b

C3_DroppedIffConfiguredKeysEqual ==
    Returned =>
        \A j \in 1..Len(raw_courses) :
            ValidNamed(j) =>
                (j \notin KeptSet <=>
                     \E i \in KeptSet : i < j /\ ConfiguredKey(i) = ConfiguredKey(j))

\* C4: a second run of the cleaner on the same input with the same
\* configuration returns the same list as the first.
C4_SecondRunSameList == (Returned /\ run >= 2) => cleaned = prev_cleaned

\* the second run has returned a list that kept a record and dropped another
C4_Witness ==
    /\ Returned
    /\ run = 2
    /\ Len(cleaned) >= 1
    /\ Len(cleaned) < Len(raw_courses)
    /\ cleaned = prev_cleaned

\* C6: a record whose name is absent or, stripped and trimmed, shorter than
\* two characters is never in the cleaned list, and it leaves no trace in
\* what decides the later records: the seen set holds the keys of the kept
\* records only.
C6_ShortNameDroppedWithoutTrace ==
    /\ \A k \in 1..Len(cleaned) : Len(cleaned[k].name) >= 2
    /\ \A j \in Processed :
           (raw_courses[j].name = None
            \/ Len(_normalize_course_name(raw_courses[j].name)) < 2)
               => j \notin KeptSet
    /\ seen = {DedupeKey(raw_courses[j]) : j \in KeptSet}

\* a record with a one-character name after normalisation was dropped and a
\* later record was kept
C6_Witness ==
    /\ Returned
    /\ \E j \in Processed :
           /\ raw_courses[j].name # None
           /\ Len(_normalize_course_name(raw_courses[j].name)) = 1
           /\ j \notin KeptSet
           /\ \E k \in 1..Len(kept) : kept[k] > j

(***************************************************************************)
(* Hours (SpecHours) and instructor (SpecTeacher)                          *)
(***************************************************************************)
\* ten times the hours the raw value stands for: the number itself, the
\* largest digit run of a string, 0 without a digit run or without a value
TenTimesStatedHours(h) ==
    CASE h.kind = "int" -> 10 * h.ip
      [] h.kind = "float" -> 10 * h.ip + h.fp
      [] h.kind = "str" ->
            IF DigitRuns(h.s, 1) = <<>> THEN 0
            ELSE 10 * SetMax({ToInt(DigitRuns(h.s, 1)[k]) :
                                  k \in 1..Len(DigitRuns(h.s, 1))})
      [] OTHER -> 0

\* C5: the hours of every cleaned record is a non-negative integer: the
\* largest digit run of a raw string, 0 for a string without digits or an
\* absent value, and the number itself for a numeric raw value.
C5_HoursAsStated ==
    \A k \in 1..Len(cleaned) :
        /\ cleaned[k].hours \in Nat
        /\ 10 * cleaned[k].hours = TenTimesStatedHours(RawHour(raw_courses[kept[k]]))

ValidatedNameShape(t) ==
    /\ Len(t) \in 2..6
    /\ \A i \in 1..Len(t) : t[i] \in (Cjk \cup MiddleDots) /\ ~IsDigit(t[i])

\* the raw instructor passes the checks made on it (lines 69-79)
RawPassesValidation(course, name, cfg) ==
    RejectShape(
        RejectCourseOverlap(
            RejectNoise(TeacherText(Get(course.teacher, <<>>)),
                        LowerAll(cfg.teacher_blacklist)),
            name)) # <<>>

\* C7: the instructor of every cleaned record is the sentinel 未安排 or 2 to
\* 6 ideographs and middle dots without a digit; it is never empty, never
\* 未知讲师, and never a raw value that failed validation.
C7_InstructorValidatedOrSentinel ==
    \A k \in 1..Len(cleaned) :
        /\ \/ cleaned[k].teacher = Unassigned
           \/ ValidatedNameShape(cleaned[k].teacher)
        /\ cleaned[k].teacher # <<>>
        /\ cleaned[k].teacher # UnknownInstructor
        /\ (cleaned[k].teacher # Unassigned
            /\ cleaned[k].teacher = TeacherText(Get(raw_courses[kept[k]].teacher, <<>>)))
               => RawPassesValidation(raw_courses[kept[k]], cleaned[k].name, config)

(***************************************************************************)
(* Aggregates (SpecStat)                                                   *)
(***************************************************************************)
\* the aggregates the first claim on them names
Aggregates(r) ==
    <<r.total_courses, r.total_hours, r.teacher_count, r.category_count,
      r.category_dist>>

Ran(r) == r.status \notin {"not_run", "none", "empty"}

RECURSIVE SumCounts(_)
SumCounts(dist) ==
    IF DOMAIN dist = {} THEN 0
    ELSE LET v == CHOOSE x \in DOMAIN dist : TRUE
         IN  dist[v] + SumCounts([x \in DOMAIN dist \ {v} |-> dist[x]])

RECURSIVE StatedWeekIncrements(_, _)
StatedWeekIncrements(df, k) ==
    IF k > Len(df) THEN 0
    ELSE (IF parse_week_numbers(df[k].week) = <<>> THEN 1
          ELSE Len(parse_week_numbers(df[k].week)))
         + StatedWeekIncrements(df, k + 1)

\* C8: a cleaned record with hours 0 contributes to no aggregate: course
\* count, total hours, distinct instructors, category count and distribution
\* are what the aggregator computes without the zero-hour records.
C8_ZeroHoursContributeNothing ==
    /\ Ran(stat_result) =>
           Aggregates(stat_result) = Aggregates(stat_courses(ValidRows(cleaned)))
    /\ Ran(export_result) =>
           Aggregates(export_result) = Aggregates(stat_and_export(ValidRows(cleaned)))

\* C9: the distinct instructor count is the number of distinct instructors
\* of the valid records other than the empty string and 未安排.
C9_SentinelNotCounted ==
    /\ Ran(stat_result) =>
           stat_result.teacher_count =
               Cardinality({ValidRows(cleaned)[k].teacher :
                                k \in 1..Len(ValidRows(cleaned))}
                           \ {<<>>, Unassigned})
    /\ Ran(export_result) =>
           export_result.teacher_count =
               Cardinality({ValidRows(cleaned)[k].teacher :
                                k \in 1..Len(ValidRows(cleaned))}
                           \ {<<>>, Unassigned})

\* C10: the week buckets sum to the number of tokens the week parser returns
\* over the valid records plus the number of valid records without a token.
C10_WeekBucketsSum ==
    /\ Ran(stat_result) =>
           SumCounts(stat_result.week_dist) =
               StatedWeekIncrements(ValidRows(cleaned), 1)
    /\ Ran(export_result) =>
           SumCounts(export_result.week_dist) =
               StatedWeekIncrements(ValidRows(cleaned), 1)

(***************************************************************************)
(* SpecWeeks: calls of parse_week_numbers on week descriptors built from   *)
(* up to MaxWeekParts pieces, and on the examples after another call.      *)
(***************************************************************************)
\* stat_export.py lines 66-104, called on the next argument
ParseWeekNumbers ==
    /\ Len(rets) < Len(calls)
    /\ rets' = Append(rets, parse_week_numbers(calls[Len(rets) + 1]))
    /\ UNCHANGED <<calls, pipeline_vars, extract_vars>>

MaxWeekParts == 4

WeekPieces ==
    {<<"1", "2">>, <<"3", "-", "1">>, <<"-">>, <<",">>, <<"(", "dan", ")">>,
     <<"(", "shuang", ")">>, <<"(">>, <<"zhou">>, <<"x">>}

RECURSIVE Concat(_, _)
Concat(pieces, k) ==
    IF k > Len(pieces) THEN <<>> ELSE pieces[k] \o Concat(pieces, k + 1)

\* 1-16周, 1-12周(单), 3周,5周, the empty string, 第3周；1-8周 10周(双)
WeekExamples ==
    {<<"1", "-", "1", "6", "zhou">>,
     <<"1", "-", "1", "2", "zhou", "(", "dan", ")">>,
     <<"3", "zhou", ",", "5", "zhou">>,
     <<>>,
     <<"di", "3", "zhou", "fsemi", "1", "-", "8", "zhou", " ", "1", "0", "zhou",
       "(", "shuang", ")">>}

WeekInputs ==
    {Concat(ps, 1) : ps \in SeqsUpTo(WeekPieces, MaxWeekParts)} \cup WeekExamples

InitWeeks ==
    /\ StartPipeline({Setting(FALSE, NoConfig, None)}, {<<>>})
    /\ rets = <<>>
    /\ NoExtraction
    /\ calls \in {<<w>> : w \in WeekInputs}
                 \cup {<<e, w>> : e \in {<<"1", "-", "1", "2", "zhou", "(", "dan", ")">>,
                                         <<"x">>},
                                  w \in WeekExamples}

SpecWeeks == InitWeeks /\ [][ParseWeekNumbers]_vars

\* what the week parser is stated to return: the segments between commas,
\* semicolons and whitespace once 周 and 第 are removed ...
RECURSIVE StatedSegments(_, _)
StatedSegments(s, i) ==
    IF i > Len(s) THEN <<>>
    ELSE IF s[i] \in {",", "fcomma", ";", "fsemi"} \cup Whitespace
         THEN StatedSegments(s, i + 1)
         ELSE <<SubSeq(s, i, i + RunLen(s, i, {s[j] : j \in 1..Len(s)}
                                                 \ ({",", "fcomma", ";", "fsemi"}
                                                    \cup Whitespace)) - 1)>>
              \o StatedSegments(s, i + RunLen(s, i, {s[j] : j \in 1..Len(s)}
                                                     \ ({",", "fcomma", ";", "fsemi"}
                                                        \cup Whitespace)))

\* ... the part of a segment before its parenthetical, if it has one ...
StatedBase(seg) ==
    IF \E i, j \in 1..Len(seg) : seg[i] = "(" /\ seg[j] = ")"
    THEN SubSeq(seg, 1, SetMin({i \in 1..Len(seg) : seg[i] = "("}) - 1)
    ELSE seg

StatedParity(seg) ==
    IF StatedBase(seg) = seg THEN <<>>
    ELSE IF \E i \in Len(StatedBase(seg)) + 1..Len(seg) : seg[i] = "dan"
         THEN <<"(", "dan", ")">>
         ELSE IF \E i \in Len(StatedBase(seg)) + 1..Len(seg) : seg[i] = "shuang"
              THEN <<"(", "shuang", ")">>
              ELSE <<>>

\* ... and the token of a segment: min-max with the parity mark for a-b, the
\* integer itself for an integer, nothing otherwise
StatedToken(seg) ==
    IF \E d \in 2..Len(StatedBase(seg)) - 1 :
           /\ StatedBase(seg)[d] = "-"
           /\ \A i \in 1..Len(StatedBase(seg)) : i # d => IsDigit(StatedBase(seg)[i])
    THEN LET d == CHOOSE d \in 2..Len(StatedBase(seg)) - 1 : StatedBase(seg)[d] = "-"
             a == ToInt(SubSeq(StatedBase(seg), 1, d - 1))
             b == ToInt(SubSeq(StatedBase(seg), d + 1, Len(StatedBase(seg))))
         IN  <<NatStr(IF a < b THEN a ELSE b) \o <<"-">>
               \o NatStr(IF a < b THEN b ELSE a) \o StatedParity(seg)>>
    ELSE IF StatedBase(seg) # <<>>
            /\ \A i \in 1..Len(StatedBase(seg)) : IsDigit(StatedBase(seg)[i])
         THEN <<StatedBase(seg)>>
         ELSE <<>>

RECURSIVE StatedTokens(_, _)
StatedTokens(segs, k) ==
    IF k > Len(segs) THEN <<>>
    ELSE StatedToken(segs[k]) \o StatedTokens(segs, k + 1)

StatedWeekTokens(week_str) ==
    StatedTokens(
        StatedSegments(SelectSeq(week_str, LAMBDA c : c \notin {"zhou", "di"}), 1), 1)

\* C11: every call of parse_week_numbers, whatever was parsed before it,
\* returns one token per matching segment in segment order: min-max plus the
\* parity mark for a-b, the integer for an integer, nothing for any other
\* segment; 1-16周 gives [1-16], 1-12周(单) gives [1-12(单)], 3周,5周 gives
\* [3, 5] and the empty string gives [].
C11_WeekTokensAsStated ==
    \A k \in 1..Len(rets) :
        /\ rets[k] = StatedWeekTokens(calls[k])
        /\ calls[k] = <<"1", "-", "1", "6", "zhou">> => rets[k] = <<<<"1", "-", "1", "6">>>>
        /\ calls[k] = <<"1", "-", "1", "2", "zhou", "(", "dan", ")">>
               => rets[k] = <<<<"1", "-", "1", "2", "(", "dan", ")">>>>
        /\ calls[k] = <<"3", "zhou", ",", "5", "zhou">> => rets[k] = <<<<"3">>, <<"5">>>>
        /\ calls[k] = <<>> => rets[k] = <<>>

\* a call on an integer and a descending range with a parity mark returned
\* the integer and then the swapped range with the mark
C11_Witness ==
    /\ Len(rets) = 1
    /\ calls[1] = <<"1", "2", ",", "3", "-", "1", "(", "shuang", ")">>
    /\ rets[1] = <<<<"1", "2">>, <<"1", "-", "3", "(", "shuang", ")">>>>

(***************************************************************************)
(* gui_run.py: extract_teacher_from_cell                                   *)
(***************************************************************************)
\* the characters of s outside X, as a class for RunLen
Others(s, X) == {s[j] : j \in 1..Len(s)} \ X

TeacherLabels == <<<<"jiang", "shi">>, <<"jiao", "shi">>, <<"shou", "ke", "ren">>>>

\* [^，,;/\\()]
LabelValueStops == {"fcomma", ",", ";", "/", "\\", "(", ")"}

\* where label[:：]\s*([^，,;/\\()]+) matches: the label, a colon, and at
\* least one character of the class (white space is in the class)
LabelMatches(text, label) ==
    {i \in 1..Len(text) :
        /\ i + Len(label) + 1 <= Len(text)
        /\ SubSeq(text, i, i + Len(label) - 1) = label
        /\ text[i + Len(label)] \in {":", "fcolon"}
        /\ text[i + Len(label) + 1] \notin LabelValueStops}

\* m.group(1).strip() of the leftmost match, "" without a match
LabelValue(text, label) ==
    IF LabelMatches(text, label) = {} THEN <<>>
    ELSE Strip(SubSeq(text,
                      SetMin(LabelMatches(text, label)) + Len(label) + 1,
                      SetMin(LabelMatches(text, label)) + Len(label)
                        + RunLen(text, SetMin(LabelMatches(text, label)) + Len(label) + 1,
                                 Others(text, LabelValueStops))))

\* lines 31-37: the first pattern whose value is not empty
RECURSIVE LabelledTeacher(_, _)
LabelledTeacher(text, k) ==
    IF k > Len(TeacherLabels) THEN <<>>
    ELSE IF LabelValue(text, TeacherLabels[k]) # <<>>
         THEN LabelValue(text, TeacherLabels[k])
         ELSE LabelledTeacher(text, k + 1)

\* 本, 计算机, 数学, 电信工, 大数据
NameStopWords ==
    <<<<"ben">>, <<"ji", "suan", "ji1">>, <<"shu", "xue">>,
      <<"dian", "xin", "gong">>, <<"da", "shu", "ju">>>>

\* lines 42-52
is_name(s) ==
    /\ Strip(s) # <<>>
    /\ ~ContainsAny(Strip(s), NameStopWords)
    /\ ~HasDigit(Strip(s))
    /\ Len(Strip(s)) <= 30

\* re.sub(r'[()（）].*?$', '', c): from the first bracket that no newline
\* follows (a single final newline apart) to the end
ParenTails(c) ==
    {i \in 1..Len(c) :
        /\ c[i] \in {"(", ")", "flp", "frp"}
        /\ \A j \in (i + 1)..Len(c) : c[j] = "\n" => j = Len(c)}

StripParenTail(c) ==
    IF ParenTails(c) = {} THEN c
    ELSE SubSeq(c, 1, SetMin(ParenTails(c)) - 1)
         \o (IF c[Len(c)] = "\n" /\ SetMin(ParenTails(c)) < Len(c)
             THEN <<"\n">> ELSE <<>>)

\* lines 54-59: the first candidate that is a name, "" when there is none
RECURSIVE FirstNameCandidate(_, _)
FirstNameCandidate(candidates, k) ==
    IF k > Len(candidates) THEN <<>>
    ELSE IF is_name(Strip(StripParenTail(Strip(candidates[k]))))
         THEN Strip(StripParenTail(Strip(candidates[k])))
         ELSE FirstNameCandidate(candidates, k + 1)

\* the end of text for $: before a final newline
DollarEnd(text) ==
    IF Len(text) > 0 /\ text[Len(text)] = "\n" THEN Len(text) - 1 ELSE Len(text)

\* where [:：/]\s*([^/，,;\n]+)$ matches
TrailingMatches(text) ==
    {i \in 1..DollarEnd(text) - 1 :
        /\ text[i] \in {":", "fcolon", "/"}
        /\ text[DollarEnd(text)] # "\n"
        /\ \A j \in (i + 1 + RunLen(text, i + 1, Whitespace))..DollarEnd(text) :
               text[j] \notin {"/", "fcomma", ",", ";", "\n"}}

\* lines 62-66: the name after the last separator, "" when there is none
TrailingName(text) ==
    IF TrailingMatches(text) = {} THEN <<>>
    ELSE IF is_name(StripParenTail(Strip(SubSeq(text, SetMin(TrailingMatches(text)) + 1,
                                                DollarEnd(text)))))
         THEN StripParenTail(Strip(SubSeq(text, SetMin(TrailingMatches(text)) + 1,
                                          DollarEnd(text))))
         ELSE <<>>

FirstOf(a, b, c, d) ==
    IF a # <<>> THEN a ELSE IF b # <<>> THEN b ELSE IF c # <<>> THEN c ELSE d

extract_teacher_from_cell(text) ==
    IF ~Truthy(text) THEN UnknownInstructor
    ELSE FirstOf(LabelledTeacher(text, 1),
                 FirstNameCandidate(Split(text, {"/", "fcomma", ",", ";"}), 1),
                 TrailingName(text),
                 UnknownInstructor)

(***************************************************************************)
(* gui_run.py: normalize_time_period and the cell patterns of              *)
(* parse_single_file                                                       *)
(***************************************************************************)
Morning == <<"shang", "wu4">>

Afternoon == <<"xia", "wu4">>

Evening == <<"wan", "shang">>

UnknownPeriod == <<"wei", "zhi", "shi3", "duan">>

\* lines 75-80 and 215-223: the period inferred from a section by substring
SectionPeriod(section) ==
    IF ContainsAny(section, <<<<"1">>, <<"2">>, <<"3">>, <<"4">>>>) THEN Morning
    ELSE IF ContainsAny(section, <<<<"5">>, <<"6">>, <<"7">>, <<"8">>>>) THEN Afternoon
    ELSE IF ContainsAny(section, <<<<"9">>, <<"1", "0">>>>) THEN Evening
    ELSE None

\* line 95: the first one or two digits of the text, as a number, or -1
FirstHour(tp) ==
    IF ~HasDigit(tp) THEN 0 - 1
    ELSE ToInt(SubSeq(tp, SetMin({i \in 1..Len(tp) : IsDigit(tp[i])}),
                      SetMin({i \in 1..Len(tp) : IsDigit(tp[i])})
                      + (IF IsDigit(At(tp, SetMin({i \in 1..Len(tp) : IsDigit(tp[i])}) + 1))
                         THEN 1 ELSE 0)))

\* lines 82-105; str(None) is "None", which holds no keyword and no digit
PeriodOfText(tp) ==
    IF tp = <<>> THEN UnknownPeriod
    ELSE IF tp = None THEN UnknownPeriod
    ELSE IF ContainsAny(tp, <<Morning, <<"zao">>>>) THEN Morning
    ELSE IF ContainsAny(tp, <<Afternoon, <<"wu4">>>>) THEN Afternoon
    ELSE IF ContainsAny(tp, <<<<"wan">>, <<"ye">>>>) THEN Evening
    ELSE IF FirstHour(tp) < 0 THEN UnknownPeriod
    ELSE IF FirstHour(tp) >= 6 /\ FirstHour(tp) <= 11 THEN Morning
    ELSE IF FirstHour(tp) >= 12 /\ FirstHour(tp) <= 17 THEN Afternoon
    ELSE Evening

\* lines 71-105
normalize_time_period(time_period, section) ==
    IF ~Truthy(time_period) /\ Truthy(section) /\ SectionPeriod(section) # None
    THEN SectionPeriod(section)
    ELSE PeriodOfText(time_period)

\* lines 198 and 202: the text of the time-period or section cell of a row
HeadCell(cell) ==
    IF Truthy(cell) /\ cell \notin {<<"N", "o", "n", "e">>, <<"/", "wei", "an", "pai">>}
    THEN Strip(cell)
    ELSE <<>>

\* lines 205-223: the time period of a row and the memory after the row,
\* from the row's own time period, its section and the memory before it
ResolveTimePeriod(current_time_period, section, last_valid) ==
    IF current_time_period = <<>> /\ last_valid # <<>>
    THEN <<last_valid, last_valid>>
    ELSE IF current_time_period # <<>>
    THEN <<current_time_period, current_time_period>>
    ELSE IF section # <<>> /\ SectionPeriod(section) # None
    THEN <<SectionPeriod(section), SectionPeriod(section)>>
    ELSE <<UnknownPeriod, last_valid>>

\* lines 230-232: the text of a weekday cell, empty when the cell is skipped
GuiCellText(cell) ==
    IF ~Truthy(cell) THEN <<>>
    ELSE IF Strip(cell) \in {<<"/", "wei", "an", "pai">>, <<"N", "o", "n", "e">>}
    THEN <<>>
    ELSE Strip(cell)

CategoryMarks == {"star", "star2", "diam", "diam2"}

\* lines 235-236
GuiCourseName(course_cell) ==
    IF RunLen(course_cell, 1, Others(course_cell, CategoryMarks \cup {"(", "flp"})) = 0
    THEN <<"wei", "zhi", "ke", "cheng">>
    ELSE Strip(SubSeq(course_cell, 1,
                      RunLen(course_cell, 1, Others(course_cell, CategoryMarks \cup {"(", "flp"}))))

\* line 237: the end of the match of the week pattern that starts at i, or 0
WeekMatchEnd(s, i) ==
    IF RunLen(s, i, Digits) = 0 THEN 0
    ELSE IF /\ At(s, i + RunLen(s, i, Digits)) = "-"
            /\ RunLen(s, i + RunLen(s, i, Digits) + 1, Digits) > 0
            /\ At(s, i + RunLen(s, i, Digits) + 1
                       + RunLen(s, i + RunLen(s, i, Digits) + 1, Digits)) = "zhou"
    THEN i + RunLen(s, i, Digits) + 1 + RunLen(s, i + RunLen(s, i, Digits) + 1, Digits)
    ELSE IF At(s, i + RunLen(s, i, Digits)) # "zhou" THEN 0
    ELSE IF /\ At(s, i + RunLen(s, i, Digits) + 1) = "("
            /\ RunLen(s, i + RunLen(s, i, Digits) + 2, {c \in Others(s, {}) : IsWord(c)}) > 0
            /\ At(s, i + RunLen(s, i, Digits) + 2
                       + RunLen(s, i + RunLen(s, i, Digits) + 2,
                                {c \in Others(s, {}) : IsWord(c)})) = ")"
    THEN i + RunLen(s, i, Digits) + 2
           + RunLen(s, i + RunLen(s, i, Digits) + 2, {c \in Others(s, {}) : IsWord(c)})
    ELSE i + RunLen(s, i, Digits)

\* lines 237-238
GuiWeek(course_cell) ==
    IF \A i \in 1..Len(course_cell) : WeekMatchEnd(course_cell, i) = 0
    THEN UnknownWeek
    ELSE SubSeq(course_cell,
                SetMin({i \in 1..Len(course_cell) : WeekMatchEnd(course_cell, i) > 0}),
                WeekMatchEnd(course_cell,
                    SetMin({i \in 1..Len(course_cell) : WeekMatchEnd(course_cell, i) > 0})))

\* line 239: the slashes that open a /.../ stretch within one line
SlashOpens(s) ==
    {i \in 1..Len(s) : s[i] = "/" /\ At(s, i + 1 + RunLen(s, i + 1, Others(s, {"/", "\n"}))) = "/"}

\* lines 239-240
GuiLocation(course_cell) ==
    IF SlashOpens(course_cell) = {} THEN <<"wei", "zhi", "di4", "dian3">>
    ELSE Strip(SubSeq(course_cell, SetMin(SlashOpens(course_cell)) + 1,
                      SetMin(SlashOpens(course_cell))
                      + RunLen(course_cell, SetMin(SlashOpens(course_cell)) + 1,
                               Others(course_cell, {"/", "\n"}))))

\* line 241
GuiClassHour(section) ==
    IF Contains(section, <<"-">>) THEN 2
    ELSE IF IsDigits(section) THEN 1
    ELSE 0

Weekdays ==
    <<<<"xing", "qi", "yi">>, <<"xing", "qi", "er">>, <<"xing", "qi", "san">>,
      <<"xing", "qi", "si">>, <<"xing", "qi", "wu3">>, <<"xing", "qi", "liu">>,
      <<"xing", "qi", "ri">>>>

\* os.path.basename of a path
Basename(path) ==
    IF \E i \in 1..Len(path) : path[i] = "/"
    THEN SubSeq(path, SetMax({i \in 1..Len(path) : path[i] = "/"}) + 1, Len(path))
    ELSE path

\* lines 249 and 301: file|page<n>|weekday|sec<section>|col<index>
CellLocator(file, page_num, weekday, section, col_idx) ==
    file \o <<"|", "p", "a", "g", "e">> \o NatStr(page_num) \o <<"|">> \o weekday
         \o <<"|", "s", "e", "c">> \o section \o <<"|", "c", "o", "l">> \o NatStr(col_idx)

\* lines 253 and 300
PageLabel(page_num, weekday) == <<"di">> \o NatStr(page_num) \o <<"ye4", "-">> \o weekday

\* lines 235-262: the record of one weekday cell
GuiCellRecord(file_path, page_num, col_idx, course_cell, time_period, section) ==
    [file |-> Basename(file_path),
     sheet_page |-> PageLabel(page_num, Weekdays[col_idx - 2]),
     sheet_name |-> Absent,
     locator |-> CellLocator(Basename(file_path), page_num, Weekdays[col_idx - 2],
                             section, col_idx - 1),
     name |-> GuiCourseName(course_cell),
     teacher |-> extract_teacher_from_cell(course_cell),
     hours |-> HoursInt(GuiClassHour(section)),
     hours_std |-> HoursAbsent,
     category |-> Weekdays[col_idx - 2] \o <<"-">> \o normalize_time_period(time_period, section),
     week |-> GuiWeek(course_cell),
     section |-> section,
     location |-> GuiLocation(course_cell),
     time_period |-> Absent,
     source_name_text |-> Absent,
     source_text |-> Absent]

\* lines 227-262: the records of the weekday cells of a row from column k on
\* (columns are counted from 1 here, so the first weekday column is 3)
RECURSIVE GuiRowRecords(_, _, _, _, _, _)
GuiRowRecords(file_path, page_num, row, time_period, section, k) ==
    IF k > Len(row) \/ k > 9 THEN <<>>
    ELSE (IF GuiCellText(row[k]) = <<>> THEN <<>>
          ELSE <<GuiCellRecord(file_path, page_num, k, GuiCellText(row[k]),
                               time_period, section)>>)
         \o GuiRowRecords(file_path, page_num, row, time_period, section, k + 1)

(***************************************************************************)
(* src/file_parser.py: is_header_row and parse_course_cell of parse_pdf    *)
(***************************************************************************)
\* lines 104-105
header_tokens ==
    {Weekdays[k] : k \in 1..7}
    \cup {<<"jie", "ci">>, <<"shi3", "jian", "duan">>, <<"shi3", "jian">>,
          <<"xu4", "hao">>, <<"zhou", "ci">>, <<"jie">>,
          <<"shang", "ke", "shi3", "jian">>}

StartsWith(s, prefix) == Len(s) >= Len(prefix) /\ SubSeq(s, 1, Len(prefix)) = prefix

\* the characters of s at positions a..b that exist
Slice(s, a, b) == SubSeq(s, a, IF b > Len(s) THEN Len(s) ELSE b)

\* lines 111-122: a non-empty cell that counts as a header word
IsHeaderCell(c) ==
    Strip(c) \in header_tokens \/ StartsWith(Strip(c), <<"xing", "qi">>)

\* lines 107-123
is_header_row(row) ==
    /\ \E k \in 1..Len(row) : Truthy(row[k]) /\ Strip(row[k]) # <<>>
    /\ Cardinality({k \in 1..Len(row) : Truthy(row[k]) /\ Strip(row[k]) # <<>> /\ IsHeaderCell(row[k])})
         >= (IF Cardinality({k \in 1..Len(row) : Truthy(row[k]) /\ Strip(row[k]) # <<>>}) \div 2 > 1
             THEN Cardinality({k \in 1..Len(row) : Truthy(row[k]) /\ Strip(row[k]) # <<>>}) \div 2
             ELSE 1)

\* line 275
IsBlankRow(row) == \A k \in 1..Len(row) : row[k] = None \/ Strip(row[k]) = <<>>

\* lines 127-132, in the order the marks are tried
category_map ==
    <<[symbol |-> "star", cat |-> <<"li3", "lun">>],
      [symbol |-> "star2", cat |-> <<"shi2", "yan">>],
      [symbol |-> "diam", cat |-> <<"shang", "ji1">>],
      [symbol |-> "diam2", cat |-> <<"shi2", "jian4">>]>>

\* lines 133-139: the first mark of category_map that the text holds, or 0
FirstMark(ct) ==
    IF \E k \in 1..4 : Contains(ct, <<category_map[k].symbol>>)
    THEN SetMin({k \in 1..4 : Contains(ct, <<category_map[k].symbol>>)})
    ELSE 0

CellCategory(ct) == IF FirstMark(ct) = 0 THEN <<>> ELSE category_map[FirstMark(ct)].cat

AfterCategory(ct) ==
    IF FirstMark(ct) = 0 THEN ct
    ELSE Strip(Replace(ct, <<category_map[FirstMark(ct)].symbol>>, <<>>))

\* line 142: the last position of the match of \d+-\d+周(?:\(单\)|\(双\))?
\* that starts at i, or 0
RangeWeekEnd(s, i) ==
    IF ~(/\ RunLen(s, i, Digits) > 0
         /\ At(s, i + RunLen(s, i, Digits)) = "-"
         /\ RunLen(s, i + RunLen(s, i, Digits) + 1, Digits) > 0
         /\ At(s, i + RunLen(s, i, Digits) + 1
                    + RunLen(s, i + RunLen(s, i, Digits) + 1, Digits)) = "zhou")
    THEN 0
    ELSE i + RunLen(s, i, Digits) + 1 + RunLen(s, i + RunLen(s, i, Digits) + 1, Digits)
         + (IF Slice(s, i + RunLen(s, i, Digits) + 2
                          + RunLen(s, i + RunLen(s, i, Digits) + 1, Digits),
                      i + RunLen(s, i, Digits) + 4
                          + RunLen(s, i + RunLen(s, i, Digits) + 1, Digits))
                 \in {<<"(", "dan", ")">>, <<"(", "shuang", ")">>}
            THEN 3 ELSE 0)

\* lines 143-144
CellWeek(ct) ==
    IF \A i \in 1..Len(ct) : RangeWeekEnd(ct, i) = 0 THEN <<>>
    ELSE SubSeq(ct, SetMin({i \in 1..Len(ct) : RangeWeekEnd(ct, i) > 0}),
                RangeWeekEnd(ct, SetMin({i \in 1..Len(ct) : RangeWeekEnd(ct, i) > 0})))

\* lines 145-146
AfterWeek(ct) == IF CellWeek(ct) = <<>> THEN ct ELSE Strip(Replace(ct, CellWeek(ct), <<>>))

LocationMarks == {"lou", "shi4", "jiao", "hao"}

\* [一-鿿\w\-], which is also [\w\-\d]
LocationChars == Cjk \cup LatinLetters \cup Digits \cup {"_", "-"}

\* line 151: where the location pattern matches: 2 to 20 characters of the
\* class, a mark, and the rest of the run
LocationStarts(ct) ==
    {i \in 1..Len(ct) :
        \E n \in 2..20 : /\ n < RunLen(ct, i, LocationChars)
                         /\ ct[i + n] \in LocationMarks}

\* lines 150-153
CellLocation(ct) ==
    IF LocationStarts(ct) = {} THEN <<>>
    ELSE SubSeq(ct, SetMin(LocationStarts(ct)),
                SetMin(LocationStarts(ct))
                + RunLen(ct, SetMin(LocationStarts(ct)), LocationChars) - 1)

\* line 154
AfterLocation(ct) ==
    IF CellLocation(ct) = <<>> THEN ct ELSE Strip(Replace(ct, CellLocation(ct), <<>>))

\* line 159
CellParts(ct) == StripParts(Split(ct, {"\n", "/", ";", "fsemi", "|"}))

\* 23\w{0,6}本 somewhere in p
HasClassTag(p) ==
    \E i \in 1..Len(p) : \E k \in 0..6 :
        /\ Slice(p, i, i + 1) = <<"2", "3">>
        /\ \A j \in (i + 2)..(i + 1 + k) : IsWord(At(p, j))
        /\ At(p, i + 2 + k) = "ben"

\* lines 165-175: p is kept as a teacher candidate
IsTeacherCandidate(p) ==
    /\ ~\E i \in 1..Len(p) : IsDigit(p[i]) /\ At(p, i + 1) \in {"zhou", "jie"}
    /\ ~\E i \in 1..Len(p) : p[i] \in LocationMarks
    /\ ~StartsWith(p, <<"xing", "qi">>)
    /\ ~(IsDigit(At(p, 1))
         /\ (At(p, 2) = ":" \/ (IsDigit(At(p, 2)) /\ At(p, 3) = ":")))
    /\ ~Contains(p, Unassigned)
    /\ ~HasClassTag(p)
    /\ ~\E i \in 1..Len(p) : RunLen(p, i, Digits) >= 3
    /\ Len(p) >= 1 /\ Len(p) <= 30

\* lines 177-188: the chosen candidate, or None
TeacherCandidate(candidates, probable_course_name) ==
    IF \E k \in 1..Len(candidates) : NameShape(candidates[k], 2, 6)
    THEN candidates[SetMax({k \in 1..Len(candidates) : NameShape(candidates[k], 2, 6)})]
    ELSE IF \E k \in 1..Len(candidates) :
                candidates[k] # probable_course_name /\ ~HasDigit(candidates[k])
    THEN candidates[SetMax({k \in 1..Len(candidates) :
                candidates[k] # probable_course_name /\ ~HasDigit(candidates[k])})]
    ELSE None

\* lines 158-190, ct the text after the category, week and location are removed
CellTeacherCandidate(ct) ==
    TeacherCandidate(SelectSeq(CellParts(ct), IsTeacherCandidate),
                     IF CellParts(ct) = <<>> THEN <<>> ELSE CellParts(ct)[1])

CellTeacher(ct) ==
    IF CellTeacherCandidate(ct) = None THEN UnknownInstructor ELSE CellTeacherCandidate(ct)

\* lines 191-192
AfterTeacher(ct) ==
    IF CellTeacherCandidate(ct) = None THEN ct
    ELSE Strip(Replace(ct, CellTeacherCandidate(ct), <<>>))

\* line 202: re.sub(r'[()（）/:；,，\n]+', ' ', ct)
PunctuationToSpace(ct) ==
    SubFrom(ct,
            [i \in 1..Len(ct) |->
                i + RunLen(ct, i, {"(", ")", "flp", "frp", "/", ":", "fsemi", ",", "fcomma", "\n"})],
            <<" ">>, 1)

\* line 204: the position after the match of [-–—]\d+|\b23\w{0,6}\b at i, or 0
TagEnd(s, i) ==
    IF s[i] \in {"-", "endash", "emdash"} /\ RunLen(s, i + 1, Digits) > 0
    THEN i + 1 + RunLen(s, i + 1, Digits)
    ELSE IF /\ Slice(s, i, i + 1) = <<"2", "3">>
            /\ ~IsWord(At(s, i - 1))
            /\ RunLen(s, i + 2, {c \in Others(s, {}) : IsWord(c)}) <= 6
    THEN i + 2 + (IF RunLen(s, i + 2, {c \in Others(s, {}) : IsWord(c)}) > 0
                  THEN RunLen(s, i + 2, {c \in Others(s, {}) : IsWord(c)}) ELSE 0)
    ELSE 0

\* lines 199-204, ct the text after the teacher is removed as well
CellCourseName(parts, ct) ==
    Strip(SubFrom(
        IF parts # <<>> /\ parts[1][1] # "(" /\ Len(parts[1]) > 1
        THEN parts[1]
        ELSE Strip(PunctuationToSpace(ct)),
        [i \in 1..Len(IF parts # <<>> /\ parts[1][1] # "(" /\ Len(parts[1]) > 1
                      THEN parts[1] ELSE Strip(PunctuationToSpace(ct))) |->
            TagEnd(IF parts # <<>> /\ parts[1][1] # "(" /\ Len(parts[1]) > 1
                   THEN parts[1] ELSE Strip(PunctuationToSpace(ct)), i)],
        <<>>, 1))

\* lines 216-229
CellClassHour(section) ==
    IF section = <<>> THEN 0
    ELSE IF Contains(section, <<"-">>)
    THEN (IF Len(DigitRuns(section, 1)) < 2 THEN 0
          ELSE IF ToInt(DigitRuns(section, 1)[2]) >= ToInt(DigitRuns(section, 1)[1])
          THEN (IF (ToInt(DigitRuns(section, 1)[2]) - ToInt(DigitRuns(section, 1)[1]) + 1) \div 2 > 1
                THEN (ToInt(DigitRuns(section, 1)[2]) - ToInt(DigitRuns(section, 1)[1]) + 1) \div 2
                ELSE 1)
          ELSE (IF (ToInt(DigitRuns(section, 1)[1]) - ToInt(DigitRuns(section, 1)[2]) + 1) \div 2 > 1
                THEN (ToInt(DigitRuns(section, 1)[1]) - ToInt(DigitRuns(section, 1)[2]) + 1) \div 2
                ELSE 1))
    ELSE IF HasDigit(section) THEN 1
    ELSE 0

\* lines 134-154: the text of the cell after its category, week and location
\* are taken out, in this order
Residual(cell_text) == AfterLocation(AfterWeek(AfterCategory(OrEmpty(cell_text))))

\* line 211: the cell holds no course
NotACourse(course_name) ==
    \/ course_name = <<>>
    \/ course_name \in header_tokens
    \/ StartsWith(course_name, <<"xing", "qi">>)

\* lines 124-241: the record of a cell, or the empty dict {} (here <<>>)
parse_course_cell(cell_text, time_period, section, weekday) ==
    IF NotACourse(CellCourseName(CellParts(Residual(cell_text)),
                                 AfterTeacher(Residual(cell_text))))
    THEN <<>>
    ELSE [name |-> CellCourseName(CellParts(Residual(cell_text)),
                                  AfterTeacher(Residual(cell_text))),
          teacher |-> CellTeacher(Residual(cell_text)),
          hours |-> HoursInt(CellClassHour(section)),
          hours_std |-> HoursAbsent,
          category |-> CellCategory(OrEmpty(cell_text)),
          week |-> CellWeek(AfterCategory(OrEmpty(cell_text))),
          location |-> CellLocation(AfterWeek(AfterCategory(OrEmpty(cell_text)))),
          section |-> section,
          time_period |-> weekday \o <<"-">> \o time_period,
          source_name_text |-> cell_text,
          source_text |-> Absent,
          sheet_name |-> Absent]

\* lines 296-303: the record parse_pdf appends for a cell, or <<>>
PdfCellRecord(file_path, page_num, col_idx, cell_content, time_period, section) ==
    IF parse_course_cell(cell_content, time_period, section, Weekdays[col_idx - 2]) = <<>>
    THEN <<>>
    ELSE <<[file |-> file_path,
            sheet_page |-> PageLabel(page_num, Weekdays[col_idx - 2]),
            locator |-> CellLocator(file_path, page_num, Weekdays[col_idx - 2],
                                    section, col_idx - 1)]
           @@ parse_course_cell(cell_content, time_period, section, Weekdays[col_idx - 2])>>

\* lines 289-303: the records of the weekday cells of a row from column k on
RECURSIVE PdfRowRecords(_, _, _, _, _, _)
PdfRowRecords(file_path, page_num, row, time_period, section, k) ==
    IF k > Len(row) \/ k > 9 THEN <<>>
    ELSE (IF OrEmpty(row[k]) = <<>>
             \/ Strip(row[k]) \in {<<>>, Unassigned, <<"wei", " ", "an", "pai">>}
          THEN <<>>
          ELSE PdfCellRecord(file_path, page_num, k, Strip(row[k]), time_period, section))
         \o PdfRowRecords(file_path, page_num, row, time_period, section, k + 1)

\* lines 275-303: the records of one row of a page's table
PdfRow(file_path, page_num, row) ==
    IF row = <<>> \/ IsBlankRow(row) \/ is_header_row(row) THEN <<>>
    ELSE PdfRowRecords(file_path, page_num, row,
                       IF Truthy(row[1]) THEN Strip(row[1]) ELSE <<>>,
                       IF Len(row) > 1 /\ Truthy(row[2]) THEN Strip(row[2]) ELSE <<>>,
                       3)

(***************************************************************************)
(* Spreadsheets.  A sheet is the grid of its cells, row by row; a cell is  *)
(* its text, or None when it is empty (NaN in the DataFrame).  The model   *)
(* takes every cell to be a text cell and every header cell to be filled.  *)
(***************************************************************************)
CourseNameHeader == <<"ke", "cheng", "ming", "cheng1">>

\* gui_run.py lines 119-126: the built-in field mapping
DefaultFieldMapping ==
    <<[target |-> "name", names |-> <<CourseNameHeader, <<"ke", "cheng">>>>],
      [target |-> "teacher", names |-> <<<<"jiang", "shi">>, <<"jiao", "shi">>>>],
      [target |-> "hours", names |-> <<<<"ke", "shi3">>, <<"shi3", "chang">>>>],
      [target |-> "category", names |-> <<<<"fen", "lei">>, <<"lei", "xing2">>>>]>>

\* CONFIG["field_mapping"] of gui_run.py (lines 108-128, 146), None for the
\* KeyError of a configuration file without the key; a full configuration
\* file holds the built-in mapping
GuiFieldMapping(cf) == IF cf = "partial" THEN None ELSE DefaultFieldMapping

\* CONFIG.get("field_mapping", {}) of file_parser.py (lines 13-24, 60, 76)
ParserFieldMapping(cf) == IF cf = "full" THEN DefaultFieldMapping ELSE <<>>

\* the first column whose title holds one of the names, or 0
\* (gui_run.py lines 147-150, file_parser.py lines 77-81)
MatchedCol(columns, names) ==
    IF \E c \in 1..Len(columns) : ContainsAny(columns[c], names)
    THEN SetMin({c \in 1..Len(columns) : ContainsAny(columns[c], names)})
    ELSE 0

\* hasattr(row, col) for a row of itertuples: the column title is kept as
\* a field name only when it is an identifier that does not start with "_"
IsFieldName(col) ==
    /\ col # <<>>
    /\ \A i \in 1..Len(col) : IsWord(col[i])
    /\ ~IsDigit(col[1])
    /\ col[1] # "_"

\* gui_run.py lines 155-159: _get
GuiGet(columns, row, names) ==
    IF MatchedCol(columns, names) = 0 THEN None
    ELSE IF ~IsFieldName(columns[MatchedCol(columns, names)]) THEN None
    ELSE row[MatchedCol(columns, names)]

\* gui_run.py lines 166-174: the record of data row k (counted from 1)
GuiSheetRecord(file_path, sheet_name, columns, row, k, mapping) ==
    [file |-> Basename(file_path),
     sheet_page |-> sheet_name,
     sheet_name |-> Absent,
     locator |-> Basename(file_path) \o <<"|">> \o sheet_name \o <<"|", "r", "o", "w">> \o NatStr(k),
     name |-> GuiGet(columns, row, mapping[1].names),
     teacher |-> IF GuiGet(columns, row, mapping[2].names) = None THEN Unknown
                 ELSE GuiGet(columns, row, mapping[2].names),
     hours |-> IF GuiGet(columns, row, mapping[3].names) = None THEN HoursInt(0)
               ELSE HoursStr(GuiGet(columns, row, mapping[3].names)),
     hours_std |-> HoursAbsent,
     category |-> IF GuiGet(columns, row, mapping[4].names) = None THEN <<"wei", "fen", "lei">>
                  ELSE GuiGet(columns, row, mapping[4].names),
     week |-> Absent, section |-> Absent, location |-> Absent, time_period |-> Absent,
     source_name_text |-> Absent, source_text |-> Absent]

\* gui_run.py lines 141-176: the records of a sheet from grid row k on; the
\* first grid row is the header
RECURSIVE GuiSheetRecords(_, _, _, _, _)
GuiSheetRecords(file_path, sheet_name, grid, mapping, k) ==
    IF k > Len(grid) THEN <<>>
    ELSE (IF Truthy(GuiGet([c \in 1..Len(grid[1]) |-> Strip(grid[1][c])], grid[k], mapping[1].names))
          THEN <<GuiSheetRecord(file_path, sheet_name,
                                [c \in 1..Len(grid[1]) |-> Strip(grid[1][c])],
                                grid[k], k - 1, mapping)>>
          ELSE <<>>)
         \o GuiSheetRecords(file_path, sheet_name, grid, mapping, k + 1)

\* file_parser.py line 55: ' '.join of the filled cells of a row, lowered
RECURSIVE RowText(_, _)
RowText(row, k) ==
    IF k > Len(row) THEN <<>>
    ELSE IF row[k] = None THEN RowText(row, k + 1)
    ELSE LowerStr(row[k])
         \o (IF \E j \in (k + 1)..Len(row) : row[j] # None THEN <<" ">> ELSE <<>>)
         \o RowText(row, k + 1)

\* file_parser.py lines 59-63: how many fields have a name in the row text
MatchedFields(row_text, mapping) ==
    Cardinality({f \in 1..Len(mapping) : ContainsAny(row_text, LowerAll(mapping[f].names))})

\* file_parser.py lines 49-65: the header row (counted from 1), with the
\* default threshold of 2 and no blacklist
HeaderRow(grid, mapping) ==
    IF \E i \in 1..Len(grid) : i <= 6 /\ MatchedFields(RowText(grid[i], 1), mapping) >= 2
    THEN SetMin({i \in 1..Len(grid) : i <= 6 /\ MatchedFields(RowText(grid[i], 1), mapping) >= 2})
    ELSE 1

\* file_parser.py lines 89-94: the value of a field in a row, Absent when
\* no column matched the field
ParserGet(columns, row, names) ==
    IF MatchedCol([c \in 1..Len(columns) |-> LowerStr(columns[c])], LowerAll(names)) = 0
    THEN Absent
    ELSE row[MatchedCol([c \in 1..Len(columns) |-> LowerStr(columns[c])], LowerAll(names))]

\* mapping[f].names for the field called target, <<>> when it is not mapped
NamesOf(mapping, target) ==
    IF \E f \in 1..Len(mapping) : mapping[f].target = target
    THEN mapping[CHOOSE f \in 1..Len(mapping) : mapping[f].target = target].names
    ELSE <<>>

\* file_parser.py lines 85-95
ParserSheetRecord(file_path, sheet_name, columns, row, mapping) ==
    [file |-> file_path,
     sheet_page |-> Absent,
     sheet_name |-> sheet_name,
     locator |-> Absent,
     name |-> ParserGet(columns, row, NamesOf(mapping, "name")),
     teacher |-> ParserGet(columns, row, NamesOf(mapping, "teacher")),
     hours |-> IF ParserGet(columns, row, NamesOf(mapping, "hours")) = Absent THEN HoursAbsent
               ELSE IF ParserGet(columns, row, NamesOf(mapping, "hours")) = None THEN HoursNone
               ELSE HoursStr(ParserGet(columns, row, NamesOf(mapping, "hours"))),
     hours_std |-> HoursAbsent,
     category |-> ParserGet(columns, row, NamesOf(mapping, "category")),
     week |-> Absent, section |-> Absent, location |-> Absent, time_period |-> Absent,
     source_name_text |-> Absent, source_text |-> Absent]

\* file_parser.py lines 48-95: the records of a sheet from grid row k on
RECURSIVE ParserSheetRecords(_, _, _, _, _)
ParserSheetRecords(file_path, sheet_name, grid, mapping, k) ==
    IF k > Len(grid) THEN <<>>
    ELSE <<ParserSheetRecord(file_path, sheet_name,
                             [c \in 1..Len(grid[HeaderRow(grid, mapping)]) |->
                                 Strip(grid[HeaderRow(grid, mapping)][c])],
                             grid[k], mapping)>>
         \o ParserSheetRecords(file_path, sheet_name, grid, mapping, k + 1)

(***************************************************************************)
(* Extraction of a batch of files.  A file is [path, units]: the pages of  *)
(* a PDF or the sheets of a workbook, in order.  A unit is                 *)
(* [fails, name, tables]: whether reading it raises, the sheet name, and   *)
(* the tables pdfplumber finds on the page, top to bottom (for a sheet,    *)
(* the one grid of its cells).  A table has at least one row.              *)
(***************************************************************************)
EndsWith(s, suffix) ==
    Len(s) >= Len(suffix) /\ SubSeq(s, Len(s) - Len(suffix) + 1, Len(s)) = suffix

\* gui_run.py lines 134-178, file_parser.py line 314
IsWorkbook(path) ==
    EndsWith(path, <<".", "x", "l", "s", "x">>) \/ EndsWith(path, <<".", "x", "l", "s">>)

\* the table page.extract_table() returns: the one with the most cells, the
\* upper one of two that have equally many
RECURSIVE CellCount(_, _)
CellCount(table, k) ==
    IF k > Len(table) THEN 0 ELSE Len(table[k]) + CellCount(table, k + 1)

LargestTable(tables) ==
    SetMin({t \in 1..Len(tables) :
               \A o \in 1..Len(tables) : CellCount(tables[o], 1) <= CellCount(tables[t], 1)})

\* the program is started: run.py lines 19-21 and gui_run.py lines 8-13
\* import src.stat_export, which opens config.yaml (stat_export.py lines
\* 6-8) and raises FileNotFoundError when there is none
Import ==
    /\ pc = "import"
    /\ pc' = IF config_file = "missing" THEN "aborted" ELSE "files"
    /\ UNCHANGED <<has_regex, config, raw_courses, dedupe_arg, dedupe_keys, idx, seen,
                   cleaned, kept, run, prev_cleaned, stat_result, export_result>>
    /\ UNCHANGED <<call_vars, extract_vars>>

\* a file is left: its records so far are kept (returned) or dropped
LeaveFile(returned) ==
    /\ raw_courses' = raw_courses \o returned
    /\ fpos' = fpos + 1
    /\ upos' = 0
    /\ tpos' = 0
    /\ rpos' = 0
    /\ courses' = <<>>
    /\ pc' = "files"
    /\ UNCHANGED <<last_valid_time_period, row_time_period>>

\* gui_run.py lines 181-187: parse_single_file enters the next page
GuiPage ==
    /\ pc = "files" /\ entry = "gui"
    /\ fpos <= Len(files)
    /\ ~IsWorkbook(files[fpos].path)
    /\ upos < Len(files[fpos].units)
    /\ IF files[fpos].units[upos + 1].fails
       THEN LeaveFile(<<>>)
       ELSE IF files[fpos].units[upos + 1].tables = <<>>
       THEN /\ upos' = upos + 1
            /\ UNCHANGED <<raw_courses, fpos, tpos, rpos, courses, pc,
                           last_valid_time_period, row_time_period>>
       ELSE /\ upos' = upos + 1
            /\ last_valid_time_period' = <<>>
            /\ tpos' = 1
            /\ rpos' = 0
            /\ pc' = "rows"
            /\ UNCHANGED <<raw_courses, fpos, courses, row_time_period>>
    /\ UNCHANGED <<has_regex, config, dedupe_arg, dedupe_keys, idx, seen, cleaned, kept,
                   run, prev_cleaned, stat_result, export_result>>
    /\ UNCHANGED <<call_vars, entry, config_file, files>>

\* the row after row r of table t of a page, <<0, 0>> after the last one
NextRow(tables, t, r) ==
    IF r < Len(tables[t]) THEN <<t, r + 1>>
    ELSE IF t < Len(tables) THEN <<t + 1, 1>>
    ELSE <<0, 0>>

\* gui_run.py lines 190-262: one iteration of the row loop of a page
GuiRow ==
    /\ pc = "rows" /\ entry = "gui"
    /\ LET tables == files[fpos].units[upos].tables
           t == NextRow(tables, tpos, rpos)[1]
           r == NextRow(tables, tpos, rpos)[2]
           row == tables[t][r]
       IN  /\ tpos' = t
           /\ rpos' = r
           /\ pc' = IF NextRow(tables, t, r) = <<0, 0>> THEN "files" ELSE "rows"
           /\ IF r = 1 \/ Len(row) < 3
              THEN UNCHANGED <<courses, last_valid_time_period, row_time_period>>
              ELSE /\ row_time_period' =
                          ResolveTimePeriod(HeadCell(row[1]), HeadCell(row[2]),
                                            last_valid_time_period)[1]
                   /\ last_valid_time_period' =
                          ResolveTimePeriod(HeadCell(row[1]), HeadCell(row[2]),
                                            last_valid_time_period)[2]
                   /\ courses' = courses \o
                          GuiRowRecords(files[fpos].path, upos, row,
                                        ResolveTimePeriod(HeadCell(row[1]), HeadCell(row[2]),
                                                          last_valid_time_period)[1],
                                        HeadCell(row[2]), 3)
    /\ UNCHANGED <<has_regex, config, raw_courses, dedupe_arg, dedupe_keys, idx, seen,
                   cleaned, kept, run, prev_cleaned, stat_result, export_result>>
    /\ UNCHANGED <<call_vars, entry, config_file, files, fpos, upos>>

\* gui_run.py lines 139-176 and 266-267: parse_single_file reads the next
\* sheet of a workbook
GuiSheet ==
    /\ pc = "files" /\ entry = "gui"
    /\ fpos <= Len(files)
    /\ IsWorkbook(files[fpos].path)
    /\ upos < Len(files[fpos].units)
    /\ IF files[fpos].units[upos + 1].fails \/ GuiFieldMapping(config_file) = None
       THEN LeaveFile(<<>>)
       ELSE /\ upos' = upos + 1
            /\ courses' = courses \o
                   GuiSheetRecords(files[fpos].path, files[fpos].units[upos + 1].name,
                                   files[fpos].units[upos + 1].tables[1],
                                   GuiFieldMapping(config_file), 2)
            /\ UNCHANGED <<raw_courses, fpos, tpos, rpos, pc,
                           last_valid_time_period, row_time_period>>
    /\ UNCHANGED <<has_regex, config, dedupe_arg, dedupe_keys, idx, seen, cleaned, kept,
                   run, prev_cleaned, stat_result, export_result>>
    /\ UNCHANGED <<call_vars, entry, config_file, files>>

\* file_parser.py lines 246-263 and 304-306: parse_pdf enters the next page
ParsePdfPage ==
    /\ pc = "files" /\ entry = "cli"
    /\ fpos <= Len(files)
    /\ ~IsWorkbook(files[fpos].path)
    /\ upos < Len(files[fpos].units)
    /\ IF files[fpos].units[upos + 1].fails
       THEN LeaveFile(courses)
       ELSE IF files[fpos].units[upos + 1].tables = <<>>
       THEN /\ upos' = upos + 1
            /\ UNCHANGED <<raw_courses, fpos, tpos, rpos, courses, pc,
                           last_valid_time_period, row_time_period>>
       ELSE /\ upos' = upos + 1
            /\ tpos' = LargestTable(files[fpos].units[upos + 1].tables)
            /\ rpos' = 1
            /\ pc' = IF Len(files[fpos].units[upos + 1].tables[
                                LargestTable(files[fpos].units[upos + 1].tables)]) > 1
                     THEN "rows" ELSE "files"
            /\ UNCHANGED <<raw_courses, fpos, courses, last_valid_time_period,
                           row_time_period>>
    /\ UNCHANGED <<has_regex, config, dedupe_arg, dedupe_keys, idx, seen, cleaned, kept,
                   run, prev_cleaned, stat_result, export_result>>
    /\ UNCHANGED <<call_vars, entry, config_file, files>>

\* file_parser.py lines 274-303: one iteration of the row loop of a page
ParsePdfRow ==
    /\ pc = "rows" /\ entry = "cli"
    /\ LET table == files[fpos].units[upos].tables[tpos]
           row == table[rpos + 1]
       IN  /\ rpos' = rpos + 1
           /\ pc' = IF rpos + 1 = Len(table) THEN "files" ELSE "rows"
           /\ courses' = courses \o PdfRow(files[fpos].path, upos, row)
           /\ row_time_period' =
                  IF row = <<>> \/ IsBlankRow(row) \/ is_header_row(row) THEN row_time_period
                  ELSE IF Truthy(row[1]) THEN Strip(row[1])
                  ELSE <<>>
    /\ UNCHANGED <<has_regex, config, raw_courses, dedupe_arg, dedupe_keys, idx, seen,
                   cleaned, kept, run, prev_cleaned, stat_result, export_result>>
    /\ UNCHANGED <<call_vars, entry, config_file, files, fpos, upos, tpos,
                   last_valid_time_period>>

\* file_parser.py lines 45-99: parse_excel reads the next sheet of a workbook
ParseExcelSheet ==
    /\ pc = "files" /\ entry = "cli"
    /\ fpos <= Len(files)
    /\ IsWorkbook(files[fpos].path)
    /\ upos < Len(files[fpos].units)
    /\ IF files[fpos].units[upos + 1].fails
       THEN LeaveFile(courses)
       ELSE /\ upos' = upos + 1
            /\ courses' = courses \o
                   ParserSheetRecords(files[fpos].path, files[fpos].units[upos + 1].name,
                                      files[fpos].units[upos + 1].tables[1],
                                      ParserFieldMapping(config_file),
                                      HeaderRow(files[fpos].units[upos + 1].tables[1],
                                                ParserFieldMapping(config_file)) + 1)
            /\ UNCHANGED <<raw_courses, fpos, tpos, rpos, pc,
                           last_valid_time_period, row_time_period>>
    /\ UNCHANGED <<has_regex, config, dedupe_arg, dedupe_keys, idx, seen, cleaned, kept,
                   run, prev_cleaned, stat_result, export_result>>
    /\ UNCHANGED <<call_vars, entry, config_file, files>>

\* the file is read to its end and its records join the batch's:
\* gui_run.py lines 264 and 446-448, file_parser.py lines 99, 306, 315-317
FileEnd ==
    /\ pc = "files"
    /\ fpos <= Len(files)
    /\ upos = Len(files[fpos].units)
    /\ LeaveFile(courses)
    /\ UNCHANGED <<has_regex, config, dedupe_arg, dedupe_keys, idx, seen, cleaned, kept,
                   run, prev_cleaned, stat_result, export_result>>
    /\ UNCHANGED <<call_vars, entry, config_file, files>>

\* every file is parsed and the records go to clean_courses:
\* run.py lines 43-46, gui_run.py lines 450-454
ExtractDone ==
    /\ pc = "files"
    /\ fpos > Len(files)
    /\ pc' = "start"
    /\ UNCHANGED <<has_regex, config, raw_courses, dedupe_arg, dedupe_keys, idx, seen,
                   cleaned, kept, run, prev_cleaned, stat_result, export_result>>
    /\ UNCHANGED <<call_vars, extract_vars>>

NextExtract ==
    \/ Import \/ GuiPage \/ GuiRow \/ GuiSheet \/ ParsePdfPage \/ ParsePdfRow
    \/ ParseExcelSheet \/ FileEnd \/ ExtractDone \/ Next

(***************************************************************************)
(* Batches of timetable files                                              *)
(***************************************************************************)
MaxFiles == 2

HigherMaths == <<"gao", "deng", "shu", "xue">>

\* 高等数学/张三/23计算机本
MathsCell == HigherMaths \o <<"/">> \o ZhangSan \o <<"/", "2", "3", "ji", "suan", "ji1", "ben">>

\* 大学英语/李四
EnglishCell == <<"da", "xue", "ying", "yu", "/">> \o LiSi

\* 高等数学/未安排
MathsUnassignedCell == HigherMaths \o <<"/">> \o Unassigned

\* 时间段, 节次, 星期一, 星期二
TableHeader ==
    <<<<"shi3", "jian", "duan">>, <<"jie", "ci">>, Weekdays[1], Weekdays[2]>>

Page(tables) == [fails |-> FALSE, name |-> <<>>, tables |-> tables]

Sheet(name, grid) == [fails |-> FALSE, name |-> name, tables |-> <<grid>>]

Unreadable == [fails |-> TRUE, name |-> <<"s", "2">>, tables |-> <<>>]

\* one page with two tables; the only row of the second has an empty
\* time-period cell and no section
PdfTwoTables ==
    [path |-> <<"d", "/", "a", ".", "p", "d", "f">>,
     units |-> <<Page(<<<<TableHeader, <<Morning, Section12, MathsCell, None>>>>,
                        <<TableHeader, <<None, <<>>, EnglishCell, None>>>>>>)>>]

\* one table whose time-period column is a merged cell: rows without a time
\* period before and after a row with one, a cell that says 未安排, and the
\* header repeated as the last row
PdfMergedCells ==
    [path |-> <<"b", ".", "p", "d", "f">>,
     units |-> <<Page(<<<<TableHeader,
                          <<None, Section12, Unassigned, None>>,
                          <<None, <<"5", "-", "6">>, MathsUnassignedCell, None>>,
                          <<Afternoon, <<"7", "-", "8">>, None, EnglishCell>>,
                          <<None, <<"9">>, MathsCell, None>>,
                          TableHeader>>>>)>>]

\* a page without tables, a page with one course, and a page that cannot be read
PdfBroken ==
    [path |-> <<"c", ".", "p", "d", "f">>,
     units |-> <<Page(<<>>),
                 Page(<<<<TableHeader, <<Morning, Section12, EnglishCell>>>>>>),
                 Unreadable>>]

CourseGrid ==
    <<<<CourseNameHeader, <<"jiang", "shi">>, <<"ke", "shi3">>>>,
      <<HigherMaths, ZhangSan, <<"3", "2">>>>,
      <<None, LiSi, None>>>>

Workbook ==
    [path |-> <<"d", "/", "w", ".", "x", "l", "s", "x">>,
     units |-> <<Sheet(<<"s", "1">>, CourseGrid)>>]

\* a workbook whose second sheet cannot be read
WorkbookBroken ==
    [path |-> <<"x", ".", "x", "l", "s">>,
     units |-> <<Sheet(<<"s", "1">>, CourseGrid), Unreadable>>]

FilePool == {PdfTwoTables, PdfMergedCells, PdfBroken, Workbook, WorkbookBroken}

\* either program is started on a batch of files; gui_run.py passes the
\* ticked dedupe keys (lines 375-384, 452-454), run.py passes none
InitExtract ==
    /\ entry \in {"cli", "gui"}
    /\ config_file \in {"missing", "partial", "full"}
    /\ files \in SeqsUpTo(FilePool, MaxFiles)
    /\ has_regex \in BOOLEAN
    /\ config = NoConfig
    /\ dedupe_arg = IF entry = "gui" THEN DefaultDedupeKeys ELSE None
    /\ raw_courses = <<>>
    /\ dedupe_keys = <<>>
    /\ pc = "import"
    /\ idx = 0
    /\ seen = {}
    /\ cleaned = <<>>
    /\ kept = <<>>
    /\ run = 0
    /\ prev_cleaned = <<>>
    /\ stat_result = NotRun
    /\ export_result = NotRun
    /\ calls = <<>>
    /\ rets = <<>>
    /\ fpos = 1
    /\ upos = 0
    /\ tpos = 0
    /\ rpos = 0
    /\ courses = <<>>
    /\ last_valid_time_period = <<>>
    /\ row_time_period = <<>>

SpecExtract == InitExtract /\ [][NextExtract]_vars

(***************************************************************************)
(* Claims about the time period of a table row                             *)
(***************************************************************************)
\* a row of a table of the current page was handled last
OnRow == pc \in {"rows", "files"} /\ fpos <= Len(files) /\ tpos >= 1 /\ rpos >= 1

CurTable == files[fpos].units[upos].tables[tpos]

\* row q of a table is one the row loop extracts cells from: not the first
\* row, and not a row the loop skips
RowExtracted(table, q) ==
    /\ q >= 2
    /\ IF entry = "gui" THEN Len(table[q]) >= 3
       ELSE table[q] # <<>> /\ ~IsBlankRow(table[q]) /\ ~is_header_row(table[q])

\* the explicit time-period string of a row, "" when the cell is empty
StatedExplicit(row) == IF Truthy(row[1]) THEN Strip(row[1]) ELSE <<>>

StatedSection(row) == IF Len(row) > 1 /\ Truthy(row[2]) THEN Strip(row[2]) ELSE <<>>

\* the explicit time periods of the extracted rows of a table up to row r
ExplicitUpTo(table, r) ==
    {q \in 2..r : RowExtracted(table, q) /\ StatedExplicit(table[q]) # <<>>}

\* the remembered slot as stated, after row r of a table: the explicit time
\* period of the last extracted row up to r that has one, "" if there is none
StatedSlot(table, r) ==
    IF ExplicitUpTo(table, r) = {} THEN <<>>
    ELSE StatedExplicit(table[SetMax(ExplicitUpTo(table, r))])

\* the time period of row r as stated: explicit, else remembered, else
\* inferred from the section, else unknown
StatedTimePeriod(table, r) ==
    IF StatedExplicit(table[r]) # <<>> THEN StatedExplicit(table[r])
    ELSE IF StatedSlot(table, r - 1) # <<>> THEN StatedSlot(table, r - 1)
    ELSE IF SectionPeriod(StatedSection(table[r])) # None
    THEN SectionPeriod(StatedSection(table[r]))
    ELSE UnknownPeriod

\* C12: the remembered time-period slot is reset at the start of each new
\* table: it is empty when the first row of a table is reached, and a row
\* without an explicit time period gets only a time period that comes from
\* its own table (an explicit one of an earlier row, one inferred from the
\* section of a row up to it) or the unknown period, never one remembered
\* from an earlier table.
C12_SlotResetPerTable ==
    (entry = "gui" /\ OnRow) =>
        /\ rpos = 1 => last_valid_time_period = <<>>
        /\ (RowExtracted(CurTable, rpos) /\ StatedExplicit(CurTable[rpos]) = <<>>) =>
               \/ row_time_period = UnknownPeriod
               \/ \E q \in 2..rpos :
                      /\ RowExtracted(CurTable, q)
                      /\ row_time_period \in {StatedExplicit(CurTable[q]),
                                              SectionPeriod(StatedSection(CurTable[q]))}

\* C13: the time period used for an extracted row is the row's own explicit
\* time period when it has one, else the remembered slot (the explicit time
\* period of the nearest earlier row of the table that has one), else the
\* period inferred from the section, else the unknown period.
C13_TimePeriodPriority ==
    (OnRow /\ RowExtracted(CurTable, rpos)) =>
        row_time_period = StatedTimePeriod(CurTable, rpos)

\* C20: during the row iteration of a table the remembered slot is empty
\* or equal to the explicit time period of an earlier extracted row of the
\* same table.
C20_SlotHoldsExplicitOnly ==
    (entry = "gui" /\ OnRow) =>
        \/ last_valid_time_period = <<>>
        \/ \E q \in ExplicitUpTo(CurTable, rpos) :
               last_valid_time_period = StatedExplicit(CurTable[q])

(***************************************************************************)
(* Claims about the records of a batch                                     *)
(***************************************************************************)

\* a course name that is a table-header word: file_parser.py line 211
IsHeaderName(name) == name \in header_tokens \/ StartsWith(name, <<"xing", "qi">>)

\* the raw records extracted so far: those of the files that are left and
\* those of the file being parsed
Extracted == raw_courses \o courses

FromPdf(rec) == ~IsWorkbook(rec.file)

\* C14: PDF extraction emits no record for a row of table-header words,
\* wherever the row stands in its table: no raw record of a PDF has a header
\* word as its course name, and no cleaned record has one either.
C14_NoHeaderRecords ==
    /\ \A i \in 1..Len(Extracted) :
           FromPdf(Extracted[i]) => ~IsHeaderName(Strip(Extracted[i].name))
    /\ \A i \in 1..Len(cleaned) : ~IsHeaderName(cleaned[i].name)

\* reading some page or sheet of the file raises an exception
FileFails(file) == \E u \in 1..Len(file.units) : file.units[u].fails

\* C15: a file whose extraction fails does not abort the batch and
\* contributes no record, not even those of its pages or sheets read before
\* the failure: whenever a file is left the batch goes on with the next
\* file, and the output record sequence grows by nothing if the file failed
\* and by the records gathered from the file otherwise.
C15_FailedFileContributesNothing ==
    [][fpos' = fpos + 1 =>
          /\ pc' = "files"
          /\ raw_courses' = raw_courses \o (IF FileFails(files[fpos]) THEN <<>> ELSE courses)]_vars

\* C16: every raw record extraction produces, from a spreadsheet row as
\* from a PDF table cell, carries a source locator.
C16_EveryRecordHasLocator ==
    \A i \in 1..Len(Extracted) :
        Extracted[i].locator # Absent /\ Truthy(Extracted[i].locator)

\* the weekday cells of the table rows of the PDF files of the batch, each as
\* <<file, page, table, row, column>>; the first row of a table is its header
PdfCells ==
    UNION {UNION {UNION {UNION {{<<f, u, t, r, k>> :
                                    k \in 3..Len(files[f].units[u].tables[t][r])} :
                                r \in 2..Len(files[f].units[u].tables[t])} :
                         t \in 1..Len(files[f].units[u].tables)} :
                  u \in 1..Len(files[f].units)} :
           f \in {g \in 1..Len(files) : ~IsWorkbook(files[g].path)}}

CellAt(c) == files[c[1]].units[c[2]].tables[c[3]][c[4]][c[5]]

\* the source locator of the records of a cell
CellLocatorOf(c) ==
    CellLocator(IF entry = "gui" THEN Basename(files[c[1]].path) ELSE files[c[1]].path,
                c[2], Weekdays[c[5] - 2],
                StatedSection(files[c[1]].units[c[2]].tables[c[3]][c[4]]), c[5] - 1)

\* the cell text is the unassigned mark alone
UnassignedAlone(cell) == Truthy(cell) /\ Strip(cell) = Unassigned

\* the unassigned mark is attached to a named course
UnassignedAttached(cell) ==
    /\ Truthy(cell) /\ Strip(cell) # Unassigned
    /\ Contains(cell, Unassigned)
    /\ ~StartsWith(Strip(cell), <<"/">>) /\ ~StartsWith(Strip(cell), Unassigned)

\* every file of the batch is parsed
ExtractionOver == entry # "none" /\ pc \in {"start", "loop", "returned"}

\* C17: a table cell that is the unassigned mark alone produces no record;
\* a cell in which the mark is attached to a named course produces a record
\* (unless its file fails), and the cleaned record that comes from such a
\* cell has the unassigned sentinel as its instructor.
C17_UnassignedCells ==
    /\ \A c \in PdfCells :
           UnassignedAlone(CellAt(c)) =>
               \A i \in 1..Len(Extracted) : Extracted[i].locator # CellLocatorOf(c)
    /\ \A c \in PdfCells :
           (ExtractionOver /\ UnassignedAttached(CellAt(c)) /\ ~FileFails(files[c[1]])) =>
               \E i \in 1..Len(raw_courses) : raw_courses[i].locator = CellLocatorOf(c)
    /\ \A j \in 1..Len(cleaned) : \A c \in PdfCells :
           (UnassignedAttached(CellAt(c)) /\ raw_courses[kept[j]].locator = CellLocatorOf(c)) =>
               cleaned[j].teacher = Unassigned

\* C18: the cell 高等数学/张三/23计算机本, which has no instructor label,
\* yields a record (unless its file fails) with the course name 高等数学 and
\* the instructor 张三, and the instructor of the cleaned record that comes
\* from the cell is still 张三.
C18_SlashSeparatedCell ==
    \A c \in PdfCells :
        (Truthy(CellAt(c)) /\ Strip(CellAt(c)) = MathsCell) =>
            /\ \A i \in 1..Len(Extracted) :
                   Extracted[i].locator = CellLocatorOf(c) =>
                       Extracted[i].name = HigherMaths /\ Extracted[i].teacher = ZhangSan
            /\ \A j \in 1..Len(cleaned) :
                   raw_courses[kept[j]].locator = CellLocatorOf(c) =>
                       cleaned[j].teacher = ZhangSan

\* the raw records of a file of the batch
RecordsOfFile(file) ==
    {i \in 1..Len(raw_courses) : raw_courses[i].file \in {file.path, Basename(file.path)}}

\* C19: with a configuration file that is missing or partial the run is not
\* aborted and extraction and cleaning use the built-in defaults: the
\* records of a workbook have the course-name field of the built-in field
\* mapping, a readable workbook yields its named rows, and clean_courses
\* dedupes on the keys its caller passes or else on the built-in keys.
C19_DefaultsWithoutConfig ==
    config_file \in {"missing", "partial"} =>
        /\ pc # "aborted"
        /\ \A i \in 1..Len(Extracted) :
               IsWorkbook(Extracted[i].file) => Extracted[i].name # Absent
        /\ \A f \in 1..Len(files) :
               (ExtractionOver /\ IsWorkbook(files[f].path) /\ ~FileFails(files[f])) =>
                   \E i \in RecordsOfFile(files[f]) : Truthy(Get(raw_courses[i].name, None))
        /\ pc \in {"loop", "returned"} =>
               dedupe_keys = (IF dedupe_arg # None THEN dedupe_arg ELSE DefaultDedupeKeys)

(***************************************************************************)
(* Timetables of one table row                                             *)
(*                                                                         *)
(* A PDF of one page with one table: the header row and one data row.      *)
(***************************************************************************)
\* the section cells: 1, 2, 3-4, 1-2, 1-4, 4-1, 5, 7-8, 9, 10, 9-10, empty, x
RowSections ==
    {<<"1">>, <<"2">>, <<"3", "-", "4">>, Section12, <<"1", "-", "4">>,
     <<"4", "-", "1">>, <<"5">>, <<"7", "-", "8">>, <<"9">>, <<"1", "0">>,
     <<"9", "-", "1", "0">>, <<>>, <<"x">>}

RowFile(row) ==
    [path |-> <<"d", "/", "r", ".", "p", "d", "f">>,
     units |-> <<Page(<<<<TableHeader, row>>>>)>>]

\* rows that differ in the section, with and without a time period
SectionRows ==
    {<<tp, section, MathsCell, None>> : tp \in {None, Morning}, section \in RowSections}

\* rows with header words among their cells: 时间 as the time period (one
\* of three non-empty cells), a weekday name in a course column (one of
\* four), 节 as the section (one of two)
HeaderWordRows ==
    {<<<<"shi3", "jian">>, Section12, MathsCell, None>>,
     <<Morning, Section12, MathsCell, Weekdays[2]>>,
     <<None, <<"jie">>, MathsCell, None>>}

\* 高等数学/讲师:李四/张三
LabelledCell ==
    HigherMaths \o <<"/", "jiang", "shi", ":">> \o LiSi \o <<"/">> \o ZhangSan

\* 课程1：张三
TrailingCell == <<"ke", "cheng", "1", "fcolon">> \o ZhangSan

\* cells that name the instructor after the course, under a label, after a
\* colon, and not at all
TeacherRows ==
    {<<Morning, Section12, cell, None>> :
        cell \in {EnglishCell, LabelledCell, TrailingCell, <<"A", "1">>}}

RowPool == SectionRows \cup HeaderWordRows \cup TeacherRows

\* either program is started on one timetable of one row, or on a workbook
InitRows ==
    /\ entry \in {"cli", "gui"}
    /\ config_file = "full"
    /\ files \in {<<RowFile(row)>> : row \in RowPool} \cup {<<Workbook>>}
    /\ has_regex = FALSE
    /\ config = NoConfig
    /\ dedupe_arg = IF entry = "gui" THEN DefaultDedupeKeys ELSE None
    /\ raw_courses = <<>>
    /\ dedupe_keys = <<>>
    /\ pc = "import"
    /\ idx = 0
    /\ seen = {}
    /\ cleaned = <<>>
    /\ kept = <<>>
    /\ run = 0
    /\ prev_cleaned = <<>>
    /\ stat_result = NotRun
    /\ export_result = NotRun
    /\ calls = <<>>
    /\ rets = <<>>
    /\ fpos = 1
    /\ upos = 0
    /\ tpos = 0
    /\ rpos = 0
    /\ courses = <<>>
    /\ last_valid_time_period = <<>>
    /\ row_time_period = <<>>

SpecRows == InitRows /\ [][NextExtract]_vars

\* the data row of the table was handled
OnDataRow == OnRow /\ rpos = 2 /\ RowExtracted(CurTable, 2)

\* the period of a section as stated: by the first number of the section,
\* 1 to 4 morning, 5 to 8 afternoon, 9 to 10 evening, unknown otherwise
StatedSectionPeriod(section) ==
    IF ~HasDigit(section) THEN UnknownPeriod
    ELSE IF ToInt(DigitRuns(section, 1)[1]) \in 1..4 THEN Morning
    ELSE IF ToInt(DigitRuns(section, 1)[1]) \in 5..8 THEN Afternoon
    ELSE IF ToInt(DigitRuns(section, 1)[1]) \in 9..10 THEN Evening
    ELSE UnknownPeriod

\* C21: in gui_run.py a row without an explicit time period, reached with no
\* remembered one, gets the period of its section number: morning for 1 to
\* 4, afternoon for 5 to 8, evening for 9 to 10 (so for 10 and 9-10), the
\* unknown period for a section without a number; and the records of the
\* row are classified under that period.
C21_PeriodFromSection ==
    (entry = "gui" /\ OnDataRow /\ StatedExplicit(CurTable[2]) = <<>>) =>
        /\ row_time_period = StatedSectionPeriod(StatedSection(CurTable[2]))
        /\ \A i \in 1..Len(courses) :
               courses[i].category =
                   Weekdays[1] \o <<"-">> \o StatedSectionPeriod(StatedSection(CurTable[2]))

\* the section is a hyphenated range a-b
IsSectionRange(section) ==
    Contains(section, <<"-">>) /\ Len(DigitRuns(section, 1)) >= 2

\* max(1, (|b-a|+1)//2) for the range a-b
StatedRangeHours(section) ==
    LET a == ToInt(DigitRuns(section, 1)[1])
        b == ToInt(DigitRuns(section, 1)[2])
        half == ((IF b >= a THEN b - a ELSE a - b) + 1) \div 2
    IN  IF half > 1 THEN half ELSE 1

\* C24: the hours of a record extracted from a PDF row are
\* max(1, (|b-a|+1)//2) when the section is a range a-b, 1 when it is a
\* single number, 0 when there is no section, and are never negative.
C24_HoursFromSection ==
    OnDataRow =>
        \A i \in 1..Len(courses) :
            /\ courses[i].hours.kind = "int" /\ courses[i].hours.ip >= 0
            /\ IsSectionRange(StatedSection(CurTable[2])) =>
                   courses[i].hours = HoursInt(StatedRangeHours(StatedSection(CurTable[2])))
            /\ IsDigits(StatedSection(CurTable[2])) => courses[i].hours = HoursInt(1)
            /\ StatedSection(CurTable[2]) = <<>> => courses[i].hours = HoursInt(0)

NonEmptyCells(row) == {k \in 1..Len(row) : Truthy(row[k]) /\ Strip(row[k]) # <<>>}

\* at least half of the non-empty cells of the row are header words
MostlyHeaderWords(row) ==
    /\ NonEmptyCells(row) # {}
    /\ 2 * Cardinality({k \in NonEmptyCells(row) : IsHeaderName(Strip(row[k]))})
           >= Cardinality(NonEmptyCells(row))

\* C27: a row is skipped as a header row only if at least half of its
\* non-empty cells are header words; of a row in which fewer are, e.g. one
\* of three, the course cells are extracted.
C27_MinorityHeaderRowExtracted ==
    (OnRow /\ rpos >= 2 /\ ~MostlyHeaderWords(CurTable[rpos])) =>
        \A k \in 3..Len(CurTable[rpos]) :
            CurTable[rpos][k] \in {MathsCell, EnglishCell} =>
                \E i \in 1..Len(courses) :
                    courses[i].locator = CellLocatorOf(<<fpos, upos, tpos, rpos, k>>)

\* the separator-split segments of a cell text
StatedSegments23(cell) ==
    StripParts(Split(cell, {"/", ",", "fcomma", ";", "fsemi", "\n", "|"}))

\* the value of a segment that is a keyword label, a colon and a value
StatedLabelValue(seg) ==
    IF \E k \in 1..Len(TeacherLabels) :
           \E colon \in {":", "fcolon"} : StartsWith(seg, TeacherLabels[k] \o <<colon>>)
    THEN Strip(SubSeq(seg, SetMin({i \in 1..Len(seg) : seg[i] \in {":", "fcolon"}}) + 1,
                      Len(seg)))
    ELSE <<>>

\* the text after the last colon of the last segment
StatedSuffix(segs) ==
    IF segs = <<>> \/ \A i \in 1..Len(segs[Len(segs)]) : segs[Len(segs)][i] \notin {":", "fcolon"}
    THEN <<>>
    ELSE Strip(SubSeq(segs[Len(segs)],
                      SetMax({i \in 1..Len(segs[Len(segs)]) :
                                 segs[Len(segs)][i] \in {":", "fcolon"}}) + 1,
                      Len(segs[Len(segs)])))

\* the instructor of a cell as stated: the value of the first labelled
\* segment, else the last segment of 2 to 6 name characters, else the
\* suffix after a colon, else the unknown instructor
StatedInstructor(cell) ==
    LET segs == StatedSegments23(cell)
        labelled == {k \in 1..Len(segs) : StatedLabelValue(segs[k]) # <<>>}
        shaped == {k \in 1..Len(segs) : NameShape(segs[k], 2, 6)}
    IN  IF labelled # {} THEN StatedLabelValue(segs[SetMin(labelled)])
        ELSE IF shaped # {} THEN segs[SetMax(shaped)]
        ELSE IF StatedSuffix(segs) # <<>> THEN StatedSuffix(segs)
        ELSE UnknownInstructor

\* C23: the instructor extracted from a cell is the value under a keyword
\* label when the cell has one, whatever its other segments; otherwise the
\* last segment that has the shape of a name of 2 to 6 characters;
\* otherwise the suffix after a colon; otherwise the unknown instructor.
C23_InstructorPriority ==
    OnDataRow =>
        \A i \in 1..Len(courses) :
            courses[i].locator = CellLocatorOf(<<fpos, upos, tpos, 2, 3>>) =>
                courses[i].teacher = StatedInstructor(Strip(CurTable[2][3]))

(***************************************************************************)
(* The instructor re-derived from the source text (SpecTeacher)            *)
(***************************************************************************)
\* the source text clean_courses hands to _clean_teacher
SourceTextOf(course) ==
    IF Truthy(Get(course.source_name_text, <<>>))
    THEN Get(course.source_name_text, <<>>)
    ELSE Get(course.source_text, <<>>)

\* the candidates found in the source text of a record that remain after
\* the department filter
RemainingCandidates(course, name, cfg) ==
    DeptFiltered(
        Candidates(StripParts(Split(_preclean_source_text(SourceTextOf(course)),
                                    {"\n", "/", ";", "fsemi", "|"})),
                   1, name, LowerAll(cfg.teacher_blacklist)),
        LowerAll(cfg.department_blacklist))

\* the last candidate of a sequence that satisfies Test, "" if none does
LastThat(candidates, Test(_)) ==
    IF \A k \in 1..Len(candidates) : ~Test(candidates[k]) THEN <<>>
    ELSE candidates[SetMax({k \in 1..Len(candidates) : Test(candidates[k])})]

\* the candidate chosen as stated: one in the name whitelist, else the last
\* that starts with a common family name, else the last of the shape of a
\* name, else the last
StatedChoice(candidates, cfg) ==
    LET whitelisted == LastThat(candidates,
                                LAMBDA c : \E k \in 1..Len(cfg.name_whitelist) :
                                               cfg.name_whitelist[k] = c)
        family == LastThat(candidates, LAMBDA c : c[1] \in CommonSurnames)
        shaped == LastThat(candidates, LAMBDA c : NameShape(c, 2, 4))
    IN  IF whitelisted # <<>> THEN whitelisted
        ELSE IF family # <<>> THEN family
        ELSE IF shaped # <<>> THEN shaped
        ELSE candidates[Len(candidates)]

\* C22: when the raw instructor of a record is rejected or absent and its
\* source text yields candidates, the cleaned instructor is the candidate
\* in the name whitelist if there is one, else the last candidate that
\* starts with a common family name, else the last candidate of the shape
\* of a name, else the last candidate.
C22_RederivedChoice ==
    \A k \in 1..Len(cleaned) :
        (/\ ~RawPassesValidation(raw_courses[kept[k]], cleaned[k].name, config)
         /\ Truthy(SourceTextOf(raw_courses[kept[k]]))
         /\ Candidates(StripParts(Split(_preclean_source_text(SourceTextOf(raw_courses[kept[k]])),
                                        {"\n", "/", ";", "fsemi", "|"})),
                       1, cleaned[k].name, LowerAll(config.teacher_blacklist)) # <<>>)
        => cleaned[k].teacher =
               StatedChoice(RemainingCandidates(raw_courses[kept[k]], cleaned[k].name, config),
                            config)

(***************************************************************************)
(* The command-line pipeline up to the export (SpecExtract)                *)
(***************************************************************************)
\* C25: in the command-line pipeline every column stat_and_export selects
\* is a column of the records clean_courses returns, so on a non-empty
\* cleaned set the export does not fail and the total hours it reports are
\* the sum of the hours of the cleaned records.
C25_ExportCompletes ==
    (entry = "cli" /\ pc = "returned" /\ cleaned # <<>>) =>
        /\ {key_columns[k] : k \in 1..Len(key_columns)} \subseteq Columns(cleaned)
        /\ export_result.status # "not_run" =>
               /\ export_result.status = "exported"
               /\ export_result.total_hours = SumHours(cleaned, 1)

(***************************************************************************)
(* SpecReclean: clean_courses called on the list it returned.  The records *)
(* carry their source text under one of the two keys the cleaner reads;    *)
(* the instructor is empty or a valid name, and the source text holds a    *)
(* family-name-initial fragment with or without a noise word in it.        *)
(***************************************************************************)
MaxRecleaned == 2

LiXinXi == <<"li", "xin", "xi">>

RecleanSources == {GaoShu \o <<";">> \o LiXinXi, GaoShu \o <<";">> \o LiSi}

\* a raw record with its source text under the key source_name_text or,
\* when under_name is FALSE, under the key source_text
Sourced(teacher, week, source, under_name) ==
    IF under_name
    THEN Raw(GaoShu, teacher, week, Section12, HoursInt(2), <<>>, source)
    ELSE [Raw(GaoShu, teacher, week, Section12, HoursInt(2), <<>>, Absent)
              EXCEPT !.source_text = source]

RecleanPool ==
    {Sourced(t, w, src, u) : t \in {<<>>, ZhangSan}, w \in {Weeks1to16, Weeks1to8},
                             src \in RecleanSources, u \in BOOLEAN}

\* a record of the returned list (lines 217-229) read as an input record:
\* the eleven keys it has, and no other
OutputAsInput(rec) ==
    [file |-> rec.file, sheet_page |-> rec.sheet_page, sheet_name |-> Absent,
     locator |-> Absent, name |-> rec.name, teacher |-> rec.teacher,
     hours |-> HoursInt(rec.hours), hours_std |-> HoursAbsent,
     category |-> rec.category, week |-> rec.week, section |-> rec.section,
     location |-> rec.location, time_period |-> rec.time_period,
     source_name_text |-> rec.source_name_text, source_text |-> Absent]

OutputsAsInputs(list) == [k \in 1..Len(list) |-> OutputAsInput(list[k])]

\* the list clean_courses returned (line 232) becomes the argument of the
\* next call
PassOutputBack ==
    /\ pc = "returned"
    /\ run = 1
    /\ raw_courses' = OutputsAsInputs(cleaned)
    /\ UNCHANGED <<has_regex, config, dedupe_arg, dedupe_keys, pc, idx, seen,
                   cleaned, kept, run, prev_cleaned, stat_result, export_result>>
    /\ UNCHANGED <<call_vars, extract_vars>>

NextReclean == Next \/ PassOutputBack

InitReclean ==
    Start({Setting(FALSE, NoConfig, None)}, SeqsUpTo(RecleanPool, MaxRecleaned))

SpecReclean == InitReclean /\ [][NextReclean]_vars

\* the second call has returned, and its argument was the list the first
\* call returned
RecleanedOutput ==
    /\ Returned
    /\ run = 2
    /\ raw_courses = OutputsAsInputs(prev_cleaned)

\* C26: cleaning is a fixed point on its own output: clean_courses called
\* on the list it returned returns that list again, record for record, the
\* instructor of a record whose instructor was re-derived from the source
\* text included.
C26_CleaningIsFixedPoint == RecleanedOutput => cleaned = prev_cleaned

=============================================================================
